---------------------------- MODULE Spec2Model ----------------------------
(***************************************************************************)
(* A model of five parts of influxdb_iox:                                  *)
(*                                                                         *)
(*   - the ingester's partition buffer state machine                       *)
(*     (ingester/src/data/partition/buffer/state_machine.rs),              *)
(*   - the router's HTTP front door (router/src/server/http.rs),           *)
(*   - the ingester's compaction of a persisting batch                     *)
(*     (ingester/src/compact.rs),                                          *)
(*   - InfluxQL duration literals                                          *)
(*     (influxdb_influxql_parser/src/literal.rs), and                      *)
(*   - the selector aggregates (query_functions/src/selectors.rs).         *)
(*                                                                         *)
(* SpecBuffer drives one BufferState through new / write / snapshot /      *)
(* into_persisting / into_data / get_query_data.  SpecRouter drives a      *)
(* HttpDelegate with concurrent route() calls; every await of the code is  *)
(* a step boundary of the model.  SpecHandler drives it with one request   *)
(* at a time and every request, body and DML answer.  SpecCompact calls    *)
(* compact_persisting_batch with every catalog sort key and batch, and     *)
(* SpecPersisting compacts the rows of a persisting batch and collects the *)
(* stream; both take a step at each await of the call.  SpecEncoding       *)
(* sends one body to a HttpDelegate twice, plain and gzip-encoded.         *)
(* SpecLiteral parses and displays durations, SpecSelector feeds the       *)
(* record batches of a table to the selector accumulators.                 *)
(***************************************************************************)
EXTENDS Integers, Sequences, FiniteSets, TLC

VARIABLES
    \* ---- partition buffer ----
    buffer,        \* the BufferState<T>: [state, sequence_range]
    life,          \* "live" | "consumed" (moved out by into_data) | "panicked"
    nextArc,       \* allocation counter: identity of the next Arc<RecordBatch>
    bev,           \* the last buffer call: [op, n, ret, data, k]; k counts the
                   \* get_query_data calls made in a row (capped at 2)
    written,       \* the sequence numbers of the writes that returned Ok
    snap,          \* the last get_query_data made in the Snapshot state:
                   \* [seen, data, range]
    \* ---- router ----
    max_requests,  \* HttpDelegate::new's max_requests
    permits,       \* request_sem: permits available
    req,           \* per request future: its position and locals
    result,        \* per request: what route() returned ("none" while it runs)
    detail,        \* per request: what the returned value carries: the
                   \* WriteSummary of Ok, the OrgBucketError, the refused
                   \* Content-Encoding, the DmlError; "none" otherwise
    dml_args,      \* per request: the call the DML handler recorded
    dml_calls,     \* per request: calls the DML handler recorded
    rejected,      \* metric http_request_limit_rejected
    metrics,       \* the write / delete counters
    decoded_over,  \* the most bytes decoded_data held when it held more than
                   \* max_request_bytes; 0 while it never did
    \* ---- compaction ----
    compacted,     \* the last compact_persisting_batch call: where its
                   \* future stands, its arguments, the keys it chose and
                   \* the CompactedStream it returned
    persisting,    \* a PersistingBatch with its record batches and the
                   \* catalog sort key it is compacted with
    collected,     \* collect(stream) of the caller: where it stands and
                   \* the record batches collected from the compacted stream
    \* ---- query language and query functions ----
    literal,       \* an InfluxQL duration literal: the text parsed, the
                   \* Duration, its displayed form and that form parsed
    selector,      \* the selector aggregates of one query: the input table,
                   \* the batches fed, the accumulators and the results
    \* ---- client ----
    sent           \* what a client sends twice, plain and gzip-encoded, and
                   \* what the DML handler answers

bufferVars == <<buffer, life, nextArc, bev, written, snap>>
routerVars == <<max_requests, permits, req, result, detail, dml_args, dml_calls,
               rejected, metrics, decoded_over>>
compactVars == <<compacted, persisting, collected>>
queryVars == <<literal, selector>>
clientVars == <<sent>>
vars == <<buffer, life, nextArc, bev, written, snap,
          max_requests, permits, req, result, detail, dml_args, dml_calls,
          rejected, metrics, decoded_over, compacted, persisting, collected,
          literal, selector, sent>>

----------------------------------------------------------------------------
(* Bounds of the model. *)

\* sequence numbers offered to write() are 0..MaxSeq
MaxSeq == 2
\* rows of one written MutableBatch: 0..MaxBatchRows
MaxBatchRows == 1
\* rows the mutable buffer may hold
MaxRows == 2
\* field values 1..MaxVal
MaxVal == 2
\* Arc<RecordBatch> allocations
MaxArcs == 3

Min2(a, b) == IF a <= b THEN a ELSE b
\* Option<T>: <<>> is None, <<v>> is Some(v)
Option(S) == {<<>>} \cup {<<v>> : v \in S}

Max2(a, b) == IF a >= b THEN a ELSE b

RECURSIVE SetMin(_)
SetMin(S) == LET x == CHOOSE y \in S : TRUE
             IN  IF S = {x} THEN x ELSE Min2(x, SetMin(S \ {x}))

RECURSIVE SetMax(_)
SetMax(S) == LET x == CHOOSE y \in S : TRUE
             IN  IF S = {x} THEN x ELSE Max2(x, SetMax(S \ {x}))

----------------------------------------------------------------------------
(* Partition buffer: data. *)

\* semantic types of the one field column of the modelled table
ColTypes == {"i64", "f64"}
Vals == 1..MaxVal

RowSeqs(k) == UNION {[1..i -> Vals] : i \in 0..k}

\* the MutableBatch values a caller may pass to write()
Batches == [ty : ColTypes, rows : RowSeqs(MaxBatchRows)]

\* SequenceNumberRange::default(): neither bound is populated
SequenceNumberRangeDefault == [some |-> FALSE, min |-> 0, max |-> 0]

inclusive_min(r) == IF r.some THEN r.min ELSE -1
inclusive_max(r) == IF r.some THEN r.max ELSE -1

\* observe(n): widens the range to hold n
observe(r, n) ==
    IF ~r.some
    THEN [some |-> TRUE, min |-> n, max |-> n]
    ELSE [some |-> TRUE, min |-> Min2(r.min, n), max |-> Max2(r.max, n)]

\* observe(n) panics on a non-monotonic sequence number
observe_panics(r, n) == r.some /\ n < r.max

\* Buffering::default(): no data buffered
BufferingDefault ==
    [tag |-> "Buffering", mb |-> [ty |-> "none", rows |-> <<>>], batches |-> <<>>]

\* MutableBatch::extend_from as used by the Buffering state's write: the
\* schema is union-widened, a type conflict on a column fails, rows of the
\* buffer precede the rows of the new batch
BufferingWrite(s, batch) ==
    IF s.mb.ty # "none" /\ s.mb.ty # batch.ty
    THEN [ok |-> FALSE, state |-> s]
    ELSE [ok |-> TRUE,
          state |-> [s EXCEPT !.mb = [ty |-> batch.ty,
                                      rows |-> s.mb.rows \o batch.rows]]]

\* Arc::new(record batch): a reference is an allocation identity with the
\* immutable content it points to
ArcNew(id, mb) == [id |-> id, ty |-> mb.ty, rows |-> mb.rows]

\* which states implement Writeable and Queryable (solid box / all boxes)
Writeable(tag) == tag = "Buffering"
Queryable(tag) == tag \in {"Buffering", "Snapshot", "Persisting"}

\* T::get_query_data of each state; `id` is the allocation a Buffering read
\* would make for its temporary RecordBatch
StateGetQueryData(s, id) ==
    IF s.tag = "Buffering"
    THEN IF s.mb.ty = "none" THEN <<>> ELSE <<ArcNew(id, s.mb)>>
    ELSE s.batches

----------------------------------------------------------------------------
(* Partition buffer: state_machine.rs. *)

\* BufferState::new()
new == [state |-> BufferingDefault, sequence_range |-> SequenceNumberRangeDefault]

\* BufferState::sequence_number_range()
sequence_number_range(b) == b.sequence_range

\* Transition::ok(v, sequence_range)
TransitionOkDropsRange(v, sequence_range) ==
    [variant |-> "Ok",
     machine |-> [state |-> v, sequence_range |-> SequenceNumberRangeDefault]]

ok(v, sequence_range) ==
    [variant |-> "Ok",
     machine |-> [state |-> v, sequence_range |-> sequence_range]]

\* Transition::unchanged(v)
unchanged(v) == [variant |-> "Unchanged", machine |-> v]

\* BufferState<T: Writeable>::write(batch, n) as a function of the machine:
\* the outcome and the machine afterwards
\* the sequence number is observed before the batch is appended
WriteObservesFirst(b, batch, n) ==
    LET w == BufferingWrite(b.state, batch)
    IN  IF observe_panics(b.sequence_range, n)
        THEN [ret |-> "Panic", machine |-> b]
        ELSE IF ~w.ok
        THEN [ret |-> "Err",
              machine |-> [b EXCEPT !.sequence_range = observe(@, n)]]
        ELSE [ret |-> "Ok",
              machine |-> [state |-> w.state,
                           sequence_range |-> observe(b.sequence_range, n)]]

WriteSkipsObserve(b, batch, n) ==
    LET w == BufferingWrite(b.state, batch)
    IN  IF ~w.ok THEN [ret |-> "Err", machine |-> b]
        ELSE [ret |-> "Ok", machine |-> [b EXCEPT !.state = w.state]]

write(b, batch, n) ==
    LET w == BufferingWrite(b.state, batch)
    IN  IF ~w.ok
        THEN [ret |-> "Err", machine |-> b]
        ELSE IF observe_panics(b.sequence_range, n)
        THEN [ret |-> "Panic", machine |-> [b EXCEPT !.state = w.state]]
        ELSE [ret |-> "Ok",
              machine |-> [state |-> w.state,
                           sequence_range |-> observe(b.sequence_range, n)]]

\* the bound `T: Writeable` on the impl block holding write()
WriteCallableInAnyState(b) == TRUE

write_callable(b) == Writeable(b.state.tag)

\* <BufferState<T> as Queryable>::get_query_data
GetQueryDataCopies(b, id) ==
    LET d == StateGetQueryData(b.state, id)
    IN  [i \in 1..Len(d) |-> [d[i] EXCEPT !.id = id + i - 1]]

get_query_data(b, id) == StateGetQueryData(b.state, id)

\* snapshot() freezes the buffer whether or not it holds a row
SnapshotAlwaysTransitions(b, id) ==
    ok([tag |-> "Snapshot",
        mb |-> [ty |-> "none", rows |-> <<>>],
        batches |-> <<ArcNew(id, b.state.mb)>>],
       b.sequence_range)

\* BufferState<Buffering>::snapshot()
snapshot(b, id) ==
    IF Len(b.state.mb.rows) = 0
    THEN unchanged(b)
    ELSE ok([tag |-> "Snapshot",
             mb |-> [ty |-> "none", rows |-> <<>>],
             batches |-> <<ArcNew(id, b.state.mb)>>],
            b.sequence_range)

\* BufferState<Snapshot>::into_persisting()
into_persisting(b) ==
    [state |-> [b.state EXCEPT !.tag = "Persisting"],
     sequence_range |-> b.sequence_range]

\* BufferState<Persisting>::into_data()
into_data(b) == b.state.batches

BufEvent(op, n, ret, data) == [op |-> op, n |-> n, ret |-> ret, data |-> data, k |-> 0]

NoSnap == [seen |-> FALSE, data |-> <<>>, range |-> SequenceNumberRangeDefault]

InitBuffer ==
    /\ buffer = new
    /\ life = "live"
    /\ nextArc = 1
    /\ bev = BufEvent("new", 0, "Ok", <<>>)
    /\ written = {}
    /\ snap = NoSnap

Write(batch, n) ==
    /\ life = "live"
    /\ write_callable(buffer)
    /\ Len(buffer.state.mb.rows) + Len(batch.rows) <= MaxRows
    /\ LET w == write(buffer, batch, n)
       IN  /\ buffer' = w.machine
           /\ life' = IF w.ret = "Panic" THEN "panicked" ELSE life
           /\ written' = IF w.ret = "Ok" THEN written \cup {n} ELSE written
           /\ bev' = BufEvent("write", n, w.ret, <<>>)
    /\ UNCHANGED <<nextArc, snap>>
    /\ UNCHANGED routerVars
    /\ UNCHANGED compactVars
    /\ UNCHANGED queryVars
    /\ UNCHANGED clientVars

SnapshotCall ==
    /\ life = "live"
    /\ buffer.state.tag = "Buffering"
    /\ nextArc <= MaxArcs
    /\ LET t == snapshot(buffer, nextArc)
       IN  /\ buffer' = t.machine
           /\ nextArc' = IF t.variant = "Ok" THEN nextArc + 1 ELSE nextArc
           /\ bev' = BufEvent("snapshot", 0, t.variant, <<>>)
    /\ UNCHANGED <<life, written, snap>>
    /\ UNCHANGED routerVars
    /\ UNCHANGED compactVars
    /\ UNCHANGED queryVars
    /\ UNCHANGED clientVars

IntoPersisting ==
    /\ life = "live"
    /\ buffer.state.tag = "Snapshot"
    /\ buffer' = into_persisting(buffer)
    /\ bev' = BufEvent("into_persisting", 0, "Ok", <<>>)
    /\ UNCHANGED <<life, nextArc, written, snap>>
    /\ UNCHANGED routerVars
    /\ UNCHANGED compactVars
    /\ UNCHANGED queryVars
    /\ UNCHANGED clientVars

IntoData ==
    /\ life = "live"
    /\ buffer.state.tag = "Persisting"
    /\ life' = "consumed"
    /\ bev' = BufEvent("into_data", 0, "Ok", into_data(buffer))
    /\ UNCHANGED <<buffer, nextArc, written, snap>>
    /\ UNCHANGED routerVars
    /\ UNCHANGED compactVars
    /\ UNCHANGED queryVars
    /\ UNCHANGED clientVars

GetQueryData ==
    /\ life = "live"
    /\ Queryable(buffer.state.tag)
    /\ nextArc <= MaxArcs
    /\ LET d == get_query_data(buffer, nextArc)
           fresh == {i \in 1..Len(d) : d[i].id >= nextArc}
       IN  /\ bev' = [BufEvent("get_query_data", 0, "Ok", d)
                       EXCEPT !.k = IF bev.op = "get_query_data" THEN 2 ELSE 1]
           /\ nextArc' = IF fresh = {} THEN nextArc
                         ELSE SetMax({d[i].id : i \in fresh}) + 1
           /\ IF buffer.state.tag = "Snapshot"
              THEN snap' = [seen |-> TRUE, data |-> d,
                            range |-> buffer.sequence_range]
              ELSE UNCHANGED snap
    /\ UNCHANGED <<buffer, life, written>>
    /\ UNCHANGED routerVars
    /\ UNCHANGED compactVars
    /\ UNCHANGED queryVars
    /\ UNCHANGED clientVars

NextBuffer ==
    \/ \E batch \in Batches, n \in 0..MaxSeq : Write(batch, n)
    \/ SnapshotCall
    \/ IntoPersisting
    \/ IntoData
    \/ GetQueryData

----------------------------------------------------------------------------
(* Compaction: compact.rs. *)

\* the most distinct values a tag column of a batch holds
MaxCard == 2

\* the tag columns, in lexicographic order, and the time column
TagColumns == <<"tag1", "tag3", "tag4">>
TIME_COLUMN_NAME == "time"
TagNames == {TagColumns[i] : i \in 1..Len(TagColumns)}
TagIndex(c) == CHOOSE i \in 1..Len(TagColumns) : TagColumns[i] = c

\* the columns of a SortKey, a sequence of column names
Cols(key) == {key[i] : i \in 1..Len(key)}

\* the orderings of a set of columns
Orderings(S) ==
    {f \in [1..Cardinality(S) -> S] : \A i, j \in 1..Cardinality(S) : i # j => f[i] # f[j]}

\* the sort keys a catalog holds: SortKey::empty(), or tag columns in some
\* order and then time
SortKeys ==
    {<<>>} \cup {tags \o <<TIME_COLUMN_NAME>> :
                   tags \in UNION {Orderings(T) : T \in SUBSET TagNames}}

\* the data of a PersistingBatch: its tag columns, each with the number of
\* distinct values it holds
PersistingBatches == UNION {[T -> 1..MaxCard] : T \in SUBSET TagNames}

\* Schema::primary_key: the tag columns in lexicographic order, then time
primary_key(data) ==
    SelectSeq(TagColumns, LAMBDA c : c \in DOMAIN data) \o <<TIME_COLUMN_NAME>>

\* the columns `cols` ordered by ascending distinct count in `data`, ties by
\* name
RECURSIVE ByCardinality(_, _)
ByCardinality(data, cols) ==
    IF cols = {} THEN <<>>
    ELSE LET first == CHOOSE c \in cols : \A d \in cols :
                         \/ data[c] < data[d]
                         \/ data[c] = data[d] /\ TagIndex(c) <= TagIndex(d)
         IN  <<first>> \o ByCardinality(data, cols \ {first})

\* schema::sort::compute_sort_key
compute_sort_key(data) == ByCardinality(data, DOMAIN data) \o <<TIME_COLUMN_NAME>>

\* schema::sort::adjust_sort_key_columns: the key for this data (the
\* catalog's columns that the data has, then the data's new columns, then
\* time) and, if there are new columns, the key for the catalog (all of the
\* catalog's columns, then the new ones, then time)
adjust_sort_key_columns(catalog_sort_key, present_pk) ==
    LET existing == SelectSeq(catalog_sort_key, LAMBDA c : c # TIME_COLUMN_NAME)
        new_columns == SelectSeq(present_pk, LAMBDA c : c \notin Cols(catalog_sort_key))
        new_tags == SelectSeq(new_columns, LAMBDA c : c # TIME_COLUMN_NAME)
        kept == SelectSeq(existing, LAMBDA c : c \in Cols(present_pk))
    IN  [data_sort_key |-> kept \o new_tags \o <<TIME_COLUMN_NAME>>,
         catalog_update |->
            IF Len(new_columns) = 0 THEN <<>>
            ELSE <<existing \o new_tags \o <<TIME_COLUMN_NAME>>>>]

\* compact: the stream of the data sorted on sort_key
CompactUnsorted(data, sort_key) == [sorted_by |-> <<>>]

compact(data, sort_key) == [sorted_by |-> sort_key]

\* compact_persisting_batch, "Get sort key from the catalog or compute it
\* from cardinality": the pair (data_sort_key, catalog_sort_key_update)
\* for a catalog sort key (an Option<SortKey>) and the data of a
\* persisting batch
SortKeysAlwaysComputed(sort_key, data) ==
    LET computed == compute_sort_key(data)
    IN  [data_sort_key |-> computed, catalog_update |-> <<computed>>]

SortKeysInSchemaOrder(sort_key, data) ==
    IF sort_key # <<>>
    THEN adjust_sort_key_columns(sort_key[1], primary_key(data))
    ELSE [data_sort_key |-> primary_key(data),
          catalog_update |-> <<primary_key(data)>>]

SortKeysNarrowCatalog(sort_key, data) ==
    LET keys == IF sort_key # <<>>
                THEN adjust_sort_key_columns(sort_key[1], primary_key(data))
                ELSE LET computed == compute_sort_key(data)
                     IN  [data_sort_key |-> computed, catalog_update |-> <<computed>>]
    IN  [data_sort_key |-> keys.data_sort_key,
         catalog_update |-> IF keys.catalog_update = <<>> THEN <<>>
                            ELSE <<keys.data_sort_key>>]

sort_keys(sort_key, data) ==
    IF sort_key # <<>>
    THEN adjust_sort_key_columns(sort_key[1], primary_key(data))
    ELSE LET computed == compute_sort_key(data)
         IN  [data_sort_key |-> computed, catalog_update |-> <<computed>>]

\* the CompactedStream a call returns once compact has returned `stream`
CompactedStream(stream, keys) ==
    [stream |-> stream,
     catalog_sort_key_update |-> keys.catalog_update,
     data_sort_key |-> keys.data_sort_key]

\* the keys of a call that has not chosen any, and the value of a call
\* that has not returned
NoKeys == [data_sort_key |-> <<>>, catalog_update |-> <<>>]
NoStream == [sorted_by |-> <<>>]
NotReturned == CompactedStream(NoStream, NoKeys)

\* no call made yet.  pc is where the future of compact_persisting_batch
\* stands: "idle" (not polled), "create_physical_plan" and
\* "execute_stream" (it waits for that call of compact), "returned", or
\* "panicked"
NoCompaction ==
    [pc |-> "idle", sort_key |-> <<>>, data |-> <<>>, keys |-> NoKeys,
     out |-> NotReturned]

\* ---- the rows of a persisting batch ----

\* rows of the record batches of one persisting batch: 0..MaxCompactRows
MaxCompactRows == 2
\* the tag columns of the rows
RowTags == {"tag1", "tag3"}
\* a tag value: 0 is null, 1..MaxCard the values in lexicographic order
NULL == 0
\* the timestamps of the rows
Times == {5, 7}
\* the rows written, before they are laid out in record batches
WrittenRows == [tags : [RowTags -> 0..MaxCard], time : Times]

\* a RecordBatch of the rows written: it has a column for each tag that
\* one of its rows has a value of; field_int tells the rows apart, it is
\* the row's number in write order (first is the number of the first row)
RecordBatch(rows, first) ==
    LET schema == {c \in RowTags : \E i \in 1..Len(rows) : rows[i].tags[c] # NULL}
    IN  [schema |-> schema,
         rows |-> [i \in 1..Len(rows) |->
                     [tags |-> [c \in schema |-> rows[i].tags[c]],
                      time |-> rows[i].time,
                      field_int |-> first + i - 1]]]

\* the record batches of rows: a new batch begins after each row in cuts
RECURSIVE RecordBatches(_, _, _)
RecordBatches(rows, cuts, from) ==
    IF from > Len(rows) THEN <<>>
    ELSE LET to == CHOOSE j \in from..Len(rows) :
                      /\ j = Len(rows) \/ j \in cuts
                      /\ \A k \in from..(j - 1) : k \notin cuts
         IN  <<RecordBatch(SubSeq(rows, from, to), from)>>
                \o RecordBatches(rows, cuts, to + 1)

\* batch.data.data of a persisting batch: no record batch, or record
\* batches with MaxCompactRows rows at most
QueryableBatches ==
    {RecordBatches(rows, cuts, 1) :
        rows \in UNION {[1..n -> WrittenRows] : n \in 0..MaxCompactRows},
        cuts \in SUBSET (1..(MaxCompactRows - 1))}

\* the catalog sort keys of the tests of compact_persisting_batch
CatalogSortKeys ==
    {<<>>, <<"tag3", "time">>, <<"tag3", "tag1", "tag4", "time">>}

\* the merged schema of record batches: their tag columns
MergedSchema(batches) == UNION {batches[i].schema : i \in 1..Len(batches)}

\* the rows of all record batches in write order, each with every column of
\* the merged schema, null where its batch lacks the column
RECURSIVE AllRows(_, _)
AllRows(batches, schema) ==
    IF batches = <<>> THEN <<>>
    ELSE LET b == Head(batches)
         IN  [i \in 1..Len(b.rows) |->
                [tags |-> [c \in schema |->
                             IF c \in b.schema THEN b.rows[i].tags[c] ELSE NULL],
                 time |-> b.rows[i].time,
                 field_int |-> b.rows[i].field_int]]
             \o AllRows(Tail(batches), schema)

\* what compute_sort_key and Schema::primary_key read of the data: the
\* tag columns and the number of distinct values of each
distinct_counts(batches) ==
    LET schema == MergedSchema(batches)
        rows == AllRows(batches, schema)
    IN  [c \in schema |->
           Cardinality({rows[i].tags[c] : i \in 1..Len(rows)} \ {NULL})]

\* the value of a row in a column of the sort key
ValueOf(row, c) == IF c = TIME_COLUMN_NAME THEN row.time ELSE row.tags[c]

\* row a sorts strictly before row b on sort_key (nulls first)
RECURSIVE SortsBefore(_, _, _)
SortsBefore(a, b, sort_key) ==
    IF sort_key = <<>> THEN FALSE
    ELSE LET c == Head(sort_key)
         IN  IF ValueOf(a, c) # ValueOf(b, c)
             THEN ValueOf(a, c) < ValueOf(b, c)
             ELSE SortsBefore(a, b, Tail(sort_key))

\* rows sorted on sort_key; rows that compare equal keep their order
RECURSIVE SortRows(_, _)
SortRows(rows, sort_key) ==
    IF rows = <<>> THEN <<>>
    ELSE LET last == rows[Len(rows)]
             rest == SortRows(SubSeq(rows, 1, Len(rows) - 1), sort_key)
         IN  SelectSeq(rest, LAMBDA r : ~SortsBefore(last, r, sort_key))
                \o <<last>>
                \o SelectSeq(rest, LAMBDA r : SortsBefore(last, r, sort_key))

\* the primary key values of a row: its tags and its time
PrimaryKeyOf(row) == [tags |-> row.tags, time |-> row.time]

\* of the rows with one primary key only the last stays
Deduplicate(rows) ==
    LET keep == {i \in 1..Len(rows) :
                   \A j \in (i + 1)..Len(rows) :
                      PrimaryKeyOf(rows[j]) # PrimaryKeyOf(rows[i])}
        RECURSIVE Kept(_)
        Kept(i) == IF i > Len(rows) THEN <<>>
                   ELSE (IF i \in keep THEN <<rows[i]>> ELSE <<>>) \o Kept(i + 1)
    IN  Kept(1)

\* the stream's record batches: the deduplication holds back the last row
\* until its input ends, and a batch without rows is not emitted
output_batches(rows) ==
    IF Len(rows) = 0 THEN <<>>
    ELSE IF Len(rows) = 1 THEN <<rows>>
    ELSE <<SubSeq(rows, 1, Len(rows) - 1), SubSeq(rows, Len(rows), Len(rows))>>

\* the stream of compact's plan executed on the record batches
execute_stream(batches, stream) ==
    output_batches(
        Deduplicate(SortRows(AllRows(batches, MergedSchema(batches)), stream.sorted_by)))

\* collected.status: "none" (collect not called), "collecting" (it waits
\* for the stream), or "ok"
NotCollected == [status |-> "none", batches |-> <<>>]

\* datafusion's collect(stream): the record batches the stream yields
\* until it ends
CollectWithEmptyBatch(batches, stream) ==
    << <<>> >> \o execute_stream(batches, stream)

collect(batches, stream) == execute_stream(batches, stream)

InitCompact ==
    /\ compacted = NoCompaction
    /\ persisting = [sort_key |-> <<>>, data |-> <<>>]
    /\ collected = NotCollected

----------------------------------------------------------------------------
(* InfluxQL duration literals: influxdb_influxql_parser/src/literal.rs. *)

\* the Durations of the model have 0..MaxCount of each unit
MaxCount == 2

\* DIVISORS: the units of a duration, the greatest first
DIVISORS == <<"w", "d", "h", "m", "s", "ms", "us", "ns">>
Units == 1..Len(DIVISORS)
\* NANOS_PER_*: how many of a unit make one of the next greater unit
PerGreater == <<1, 7, 24, 60, 60, 1000, 1000, 1000>>

\* Duration(i64): the nanoseconds are written as weeks, days, hours,
\* minutes, seconds, milliseconds, microseconds and nanoseconds, each but
\* the weeks below PerGreater (the nanoseconds of an hour do not fit the
\* integers of the model checker); equal i64 are equal sequences
RECURSIVE Carry(_, _)
Carry(v, k) ==
    IF k = 1 THEN v
    ELSE Carry([v EXCEPT ![k] = v[k] % PerGreater[k],
                         ![k - 1] = v[k - 1] + (v[k] \div PerGreater[k])], k - 1)

Duration(v) == Carry(v, Len(DIVISORS))

Zero == [k \in Units |-> 0]

\* the Duration of test_display_duration
TestDuration == <<20, 6, 13, 11, 10, 9, 8, 500>>

\* the non-negative Durations displayed
Durations == {Duration(v) : v \in [Units -> 0..MaxCount]} \cup {Duration(TestDuration)}

\* self.0 > div, for the k-th divisor
GreaterThanDivisor(self, k) ==
    \/ \E j \in 1..(k - 1) : self[j] > 0
    \/ self[k] > 1
    \/ self[k] = 1 /\ \E j \in (k + 1)..Len(DIVISORS) : self[j] > 0

\* i / div, for the k-th divisor
RECURSIVE Quotient(_, _)
Quotient(i, k) ==
    IF k = 1 THEN i[1] ELSE Quotient(i, k - 1) * PerGreater[k] + i[k]

\* i - (i / div) * div, for the k-th divisor
Remainder(i, k) == [j \in Units |-> IF j <= k THEN 0 ELSE i[j]]

\* the loop of fmt over the divisors from the k-th on; what is written is
\* a sequence of fragments, a count and a unit each
RECURSIVE FmtDivisors(_, _, _)
FmtDivisors(self, i, k) ==
    IF k > Len(DIVISORS) THEN <<>>
    ELSE IF ~GreaterThanDivisor(self, k) THEN FmtDivisors(self, i, k + 1)
    ELSE LET units == Quotient(i, k)
         IN  IF units > 0
             THEN <<[n |-> units, unit |-> DIVISORS[k]]>>
                     \o FmtDivisors(self, Remainder(i, k), k + 1)
             ELSE FmtDivisors(self, i, k + 1)

\* Display for Duration
fmt(self) ==
    IF self = Zero THEN <<[n |-> 0, unit |-> "s"]>> ELSE FmtDivisors(self, self, 1)

\* the unit tags single_duration accepts and the divisor of each
UnitTags == {"ns", "µs", "us", "ms", "s", "m", "h", "d", "w"}
DivisorOf(unit) ==
    IF unit = "µs" THEN 7
    ELSE CHOOSE k \in Units : DIVISORS[k] = unit

\* single_duration: a fragment's nanoseconds, or an error for a fragment
\* that does not end in a unit
single_duration(fragment) ==
    IF fragment.unit \in UnitTags
    THEN [ok |-> TRUE,
          nanos |-> Duration([Zero EXCEPT ![DivisorOf(fragment.unit)] = fragment.n])]
    ELSE [ok |-> FALSE, nanos |-> Zero]

\* acc + fragment
Plus(a, b) == Duration([k \in Units |-> a[k] + b[k]])

\* fold_many1's loop: fragments are added until one fails
RECURSIVE FoldMany(_, _)
FoldMany(acc, text) ==
    IF text = <<>> \/ ~single_duration(Head(text)).ok
    THEN [acc |-> acc, rest |-> text]
    ELSE FoldMany(Plus(acc, single_duration(Head(text)).nanos), Tail(text))

\* duration: an error unless the text begins with a fragment
duration(text) ==
    IF text = <<>> \/ ~single_duration(Head(text)).ok
    THEN [ok |-> FALSE, value |-> Zero, rest |-> text]
    ELSE LET folded == FoldMany(Zero, text)
         IN  [ok |-> TRUE, value |-> folded.acc, rest |-> folded.rest]

Fragment(n, unit) == [n |-> n, unit |-> unit]

\* the texts the tests parse, and texts that are no duration
Texts ==
    {<<Fragment(5, "s"), Fragment(5, "s"), Fragment(5, "s"), Fragment(5, "s"),
       Fragment(5, "s")>>,
     <<Fragment(3, "w"), Fragment(2, "h"), Fragment(15, "ms")>>,
     <<Fragment(10, "h"), Fragment(3, "m"), Fragment(2, "s")>>,
     <<Fragment(7, "µs")>>,
     <<Fragment(3, "h"), Fragment(25, "m"), Fragment(1, "")>>,
     <<>>}

\* each part of the literal is an Option: <<>> until it is there
NotParsed == <<>>
NoLiteral == [source |-> NotParsed, duration |-> NotParsed, display |-> NotParsed,
              parsed |-> NotParsed]

----------------------------------------------------------------------------
(* Selector aggregates: query_functions/src/selectors.rs. *)

\* the timestamps of the input rows are 1..MaxTime
MaxTime == 3

\* SelectorType and SelectorOutput
SelectorTypes == {"First", "Last", "Min", "Max"}
SelectorOutputs == {"Value", "Time", "Struct"}

\* the input table "t" of a query: at each timestamp no row (batch 0) or a
\* row of a record batch, with a value or NULL; the record batches are 1
\* and 3, record batch 2 has no rows
InputBatches == {1, 2, 3}
Cell(value, batch) == [value |-> value, batch |-> batch]
InputTables ==
    [1..MaxTime -> {Cell(NULL, 0)} \cup [value : 0..MaxVal, batch : {1, 3}]]

\* the tables of run_plan: the column f64_value, and the column bool_value
\* with 1 for false and 2 for true
F64Table ==
    <<Cell(2, 1), Cell(4, 1), Cell(NULL, 1), Cell(1, 3), Cell(5, 3), Cell(3, 3)>>
BoolTable ==
    <<Cell(2, 1), Cell(1, 1), Cell(NULL, 1), Cell(2, 3), Cell(1, 3), Cell(1, 3)>>

\* the value array and the time array of a record batch of the table
Arrays(table, batch) ==
    LET times == SelectSeq([t \in 1..Len(table) |-> t],
                           LAMBDA t : table[t].batch = batch)
    IN  <<[i \in 1..Len(times) |-> table[times[i]].value], times>>

\* SELECTOR::default(): no value and no time yet (None is <<>>)
DefaultSelector == [value |-> <<>>, time |-> <<>>]

\* row a is to be selected rather than row b
Selects(kind, a, b) ==
    CASE kind = "First" -> a.time < b.time
      [] kind = "Last" -> a.time > b.time
      [] kind = "Min" -> a.value < b.value \/ (a.value = b.value /\ a.time < b.time)
      [] kind = "Max" -> a.value > b.value \/ (a.value = b.value /\ a.time < b.time)

\* Selector::update_batch: the rows of the arrays that have a value are
\* looked at, and the row to select among them replaces the state unless
\* the state's row is to be selected rather than it
selector_update_batch(kind, state, value_arr, time_arr) ==
    LET rows == {[value |-> value_arr[i], time |-> time_arr[i]] :
                    i \in {j \in 1..Len(value_arr) :
                              value_arr[j] # NULL /\ time_arr[j] # NULL}}
    IN  IF rows = {} THEN state
        ELSE LET best == CHOOSE r \in rows :
                            \A o \in rows : o # r => Selects(kind, r, o)
                 current == [value |-> state.value[1], time |-> state.time[1]]
             IN  IF state.time = <<>> \/ Selects(kind, best, current)
                 THEN [value |-> <<best.value>>, time |-> <<best.time>>]
                 ELSE state

\* Selector::datafusion_state: the state as scalars, NULL for None
datafusion_state(state) ==
    <<IF state.value = <<>> THEN NULL ELSE state.value[1],
      IF state.time = <<>> THEN NULL ELSE state.time[1]>>

\* Selector::evaluate: the part of the state the output asks for
selector_evaluate(state, output) ==
    LET scalars == datafusion_state(state)
    IN  CASE output = "Value" -> scalars[1]
          [] output = "Time" -> scalars[2]
          [] output = "Struct" -> [value |-> scalars[1], time |-> scalars[2]]

\* SelectorAccumulator::update_batch
UpdateBatchOnlyOnce(kind, state, values) ==
    IF values = <<>> THEN [ok |-> TRUE, state |-> state]
    ELSE IF Len(values) # 2 THEN [ok |-> FALSE, state |-> state]
    ELSE IF state.time # <<>> THEN [ok |-> TRUE, state |-> state]
    ELSE [ok |-> TRUE,
          state |-> selector_update_batch(kind, state, values[1], values[2])]

update_batch(kind, state, values) ==
    IF values = <<>> THEN [ok |-> TRUE, state |-> state]
    ELSE IF Len(values) # 2 THEN [ok |-> FALSE, state |-> state]
    ELSE [ok |-> TRUE,
          state |-> selector_update_batch(kind, state, values[1], values[2])]

\* SelectorAccumulator::merge_batch
MergeBatchDropsStates(kind, state, states) == [ok |-> TRUE, state |-> state]

merge_batch(kind, state, states) == update_batch(kind, state, states)

\* SelectorAccumulator::state, as the arrays merge_batch is given
StateArrays(state) ==
    <<<<datafusion_state(state)[1]>>, <<datafusion_state(state)[2]>>>>

\* SelectorAccumulator::evaluate, for each output of each selector
EvaluateAll(states) ==
    [kind \in SelectorTypes |->
       [output \in SelectorOutputs |-> selector_evaluate(states[kind], output)]]

NewAccumulators == [kind \in SelectorTypes |-> DefaultSelector]

\* no query run
NoSelector ==
    [table |-> <<>>, fed |-> <<>>, partial |-> NewAccumulators,
     final |-> NewAccumulators, dirty |-> FALSE, merged |-> FALSE, out |-> <<>>]

InitQuery ==
    /\ literal = NoLiteral
    /\ selector = NoSelector

----------------------------------------------------------------------------
(* Router: bounds and inputs. *)

\* concurrent route() calls
NumRequests == 2
\* HttpDelegate::new is given max_requests in 0..MaxPermits
MaxPermits == 2
\* HttpDelegate::new's max_request_bytes
max_request_bytes == 2
\* a body chunk carries 0..MaxChunk bytes
MaxChunk == 2
\* a gzip stream inflates to at most max_request_bytes + MaxOver bytes
MaxOver == 2
\* a body of line protocol holds at most MaxLines lines
MaxLines == 1
\* a line that repeats keys has at most MaxTags tags and MaxFields fields
MaxTags == 2
MaxFields == 2
\* a body of lines for one series holds at most MaxUpsert lines
MaxUpsert == 2

Reqs == 1..NumRequests

Methods == {"POST", "GET"}
Paths == {"/api/v2/write", "/api/v2/delete", "/other"}

\* org and bucket names a client may send; LongName is longer than a
\* database name may be
LongName == "AAAAAAAAAAAAAAAAAAAAAAAAAAAAAAAAAAAAAAAAAAAAAAAAAAAAAAAAAAAAAAAAAAAAAA"
Names == {"", "bananas", "test", LongName}
\* values of the precision parameter; "h" names no Precision
Precisions == {"s", "ms", "us", "ns"}
PrecisionParams == Precisions \cup {"h"}

\* the query string of the URI: none at all, or the parameters it gives:
\* every org and bucket without a precision, and every precision with
\* org=bananas&bucket=test
NoQueryString == [present |-> FALSE, org |-> <<>>, bucket |-> <<>>, precision |-> <<>>]
QueryStrings ==
    {NoQueryString}
    \cup [present : {TRUE}, org : Option(Names), bucket : Option(Names),
          precision : {<<>>}]
    \cup [present : {TRUE}, org : {<<"bananas">>}, bucket : {<<"test">>},
          precision : Option(PrecisionParams)]
\* ?org=bananas&bucket=test
OrgBucketQuery ==
    [present |-> TRUE, org |-> <<"bananas">>, bucket |-> <<"test">>, precision |-> <<>>]
\* the query strings of the requests under load: org and bucket given, and
\* no query string
Queries == {OrgBucketQuery, NoQueryString}

\* the Content-Encoding header: "missing" stands for no header, "non_utf8"
\* for a value that is not visible ASCII; the others are the header's text
Encodings == {"missing", "gzip", "identity", "non_utf8"}
AllEncodings == Encodings \cup {"GZIP"}

\* the requests of the load specification, and every request
Requests == [method : Methods, path : Paths, query : Queries, encoding : Encodings]
AllRequests ==
    [method : Methods, path : Paths, query : QueryStrings, encoding : AllEncodings]

\* a timestamp of line protocol, an i64, written m * 10^e; the values are
\* all below i64::MAX: one second in each unit, and two instants either
\* side of i64::MAX nanoseconds when read as milliseconds
Timestamps ==
    [m : {1}, e : {0, 3, 6, 9}] \cup [m : {9223, 9224}, e : {9}]
\* a line of line protocol: its measurement, its tag set and field set in
\* the order they are written, and its timestamp, if any.  A field value
\* has the type its text shows: 300i an integer ("i"), 42u an unsigned
\* integer ("u"), 4.2 a float ("f")
Tag(key, value) == [key |-> key, value |-> value]
Field(key, type, value) == [key |-> key, type |-> type, value |-> value]
Line(table, tags, fields, ts) ==
    [table |-> table, tags |-> tags, fields |-> fields, ts |-> ts]
\* val=42i
DefaultFields == <<Field("val", "i", 42)>>
Tables == {"platanos"}
Lines == [table : Tables, tags : {<<>>}, fields : {DefaultFields},
          ts : Option(Timestamps)]
LineSeqs == UNION {[1..n -> Lines] : n \in 1..MaxLines}

\* lines with up to MaxTags tags and MaxFields fields that repeat keys,
\* values and types: the tags InputPower=300i and InputPower=42i (a tag
\* value is text), the fields InputPower=300i, InputPower=42i,
\* InputPower=4.2, field=42i and time=42u
FieldTags == {Tag("InputPower", "300i"), Tag("InputPower", "42i")}
FieldSet ==
    {Field("InputPower", "i", 300), Field("InputPower", "i", 42),
     Field("InputPower", "f", 4), Field("field", "i", 42),
     Field("time", "u", 42)}
FieldLines ==
    {Line("whydo", tags, fields, <<>>) :
        tags \in UNION {[1..n -> FieldTags] : n \in 0..MaxTags},
        fields \in UNION {[1..n -> FieldSet] : n \in 1..MaxFields}}
\* bodies of up to MaxUpsert lines for one series and timestamp:
\* "test field=1u 100" and "test field=2u 100"
UpsertLines ==
    {Line("test", <<>>, <<Field("field", "u", v)>>, <<[m |-> 1, e |-> 2]>>) :
        v \in {1, 2}}
UpsertLineSeqs == UNION {[1..n -> UpsertLines] : n \in 1..MaxUpsert}

\* what the bytes of a complete body are: line protocol that parses, a
\* delete envelope, text holding no line, bytes that are not UTF-8, text
\* that is neither line protocol nor an envelope; and the lines of line
\* protocol that parses
Body(kind, lines) == [kind |-> kind, lines |-> lines, predicate |-> <<>>]
ParsingBody == Body("parses", <<Line("platanos", <<>>, DefaultFields, <<>>)>>)

\* a delete envelope {start, stop, predicate}: JSON with the two times as
\* text and a predicate that is a conjunction of column = value expressions
MeasurementColumn == "_measurement"
DeleteExpr(column, value) == [column |-> column, value |-> value]
EnvelopeAt(start, stop, predicate) ==
    [kind |-> "envelope", lines |-> <<>>, predicate |-> predicate,
     start |-> start, stop |-> stop]
\* "start":"2021-04-01T14:00:00Z","stop":"2021-04-02T14:00:00Z"
StartTime == "2021-04-01T14:00:00Z"
StopTime == "2021-04-02T14:00:00Z"
\* text that is no time
NoTime == "wat"
Envelope(predicate) == EnvelopeAt(StartTime, StopTime, predicate)
\* "_measurement=its_a_table and location=Boston"
DeleteBody ==
    Envelope(<<DeleteExpr(MeasurementColumn, "its_a_table"),
               DeleteExpr("location", "Boston")>>)
\* predicates with and without a measurement, and the empty one
DeletePredicates ==
    {<<>>,
     <<DeleteExpr("location", "Boston")>>,
     <<DeleteExpr(MeasurementColumn, "its_a_table")>>,
     <<DeleteExpr("location", "Boston"), DeleteExpr(MeasurementColumn, "other_table")>>}

\* the body of the tests that the handler parses
AcceptedBody(handler) == IF handler = "write" THEN ParsingBody ELSE DeleteBody

Contents ==
    {ParsingBody, DeleteBody, Body("blank", <<>>), Body("not_utf8", <<>>),
     Body("malformed", <<>>)}
\* an envelope whose stop time is no time
BadRangeBody ==
    EnvelopeAt(StartTime, NoTime, <<DeleteExpr(MeasurementColumn, "its_a_table")>>)
AllContents ==
    Contents \cup {Body("parses", l) : l \in LineSeqs}
             \cup {Envelope(predicate) : predicate \in DeletePredicates}
             \cup {BadRangeBody}
\* the bodies of lines that repeat keys, and of lines for one series
LineContents ==
    {Body("parses", <<l>>) : l \in FieldLines}
    \cup {Body("parses", l) : l \in UpsertLineSeqs}

\* what the DML handler answers: Ok(summary) or Err(DmlError)
DmlOk(summary) == [ok |-> TRUE, value |-> summary]
DmlErr(error) == [ok |-> FALSE, value |-> error]

\* a gzip stream as the decoder sees it: it inflates to `len` bytes and then
\* either ends (a well-formed stream) or fails (corrupt)
GzStreams == [len : 0..(max_request_bytes + MaxOver), corrupt : BOOLEAN]

NoStats == [num_lines |-> 0, num_fields |-> 0, num_tables |-> 0]

\* `stalled` says of a request that waits at an await that the future it
\* awaits never becomes ready: the client sends no further chunk and does
\* not end the body, or the DML handler never answers
Idle == [pc |-> "idle", permit |-> FALSE, handler |-> "none", ungzip |-> FALSE,
         body |-> 0, namespace |-> "", precision |-> "none", stats |-> NoStats,
         stalled |-> FALSE]

\* the locals of a request future are gone once route() returned or the
\* future was dropped
Gone == [Idle EXCEPT !.pc = "done"]

NoMetrics == [write_lines |-> 0, write_fields |-> 0, write_tables |-> 0,
              write_body_bytes |-> 0, delete_body_bytes |-> 0]

\* no call recorded by the DML handler
NoCall == [op |-> "none", namespace |-> "", input |-> <<>>]

----------------------------------------------------------------------------
(* Router: http.rs. *)

\* the kinds of DmlError
DmlErrors == {"DatabaseNotFound", "NamespaceLookup", "ServiceLimit", "Conflict",
              "UnexpectedCatalogError", "Internal", "WriteBuffer",
              "NamespaceCreation", "BatchWrite"}

\* WriteSummary::default(), and the summaries a DML handler may answer with
WriteSummaryDefault == "default"
WriteSummaries == {WriteSummaryDefault, "sequenced"}

\* the answers of the DML handler under load, and every answer
DmlOutcomes == {DmlOk(WriteSummaryDefault), DmlErr("Internal")}
AllDmlOutcomes ==
    {DmlOk(summary) : summary \in WriteSummaries} \cup {DmlErr(e) : e \in DmlErrors}

\* a body b as a client has it: `len` bytes that are `content`, and
\* gzip(b), a well-formed stream of `gzip_len` bytes that inflates to b; a
\* gzip stream is never empty, and it may be shorter or longer than b
ClientBodies ==
    {b \in [len : 0..(max_request_bytes + MaxOver), content : Contents,
            gzip_len : 1..(max_request_bytes + MaxOver)] :
        b.len = 0 => b.content.kind = "blank"}

\* a request to be sent twice, with b and with gzip(b), and the answer the
\* DML handler is set up with
SentRequests ==
    [method : Methods, path : Paths, query : QueryStrings, body : ClientBodies,
     outcome : DmlOutcomes]

\* no such client
NotSent ==
    [method |-> "none", path |-> "none", query |-> NoQueryString,
     body |-> [len |-> 0, content |-> Body("blank", <<>>), gzip_len |-> 1],
     outcome |-> DmlOk(WriteSummaryDefault)]

\* impl From<&DmlError> for StatusCode
DmlErrorAlwaysInternal(e) == 500

StatusCodeFromDmlError(e) ==
    IF e = "DatabaseNotFound" THEN 404
    ELSE IF e = "NamespaceLookup" THEN 500
    ELSE IF e = "ServiceLimit" THEN 400
    ELSE IF e = "Conflict" THEN 400
    ELSE 500

\* Error::as_status_code; dml is the DmlError an Error::DmlHandler carries
as_status_code(error, dml) ==
    IF error = "NoHandler" THEN 404
    ELSE IF error \in {"InvalidOrgBucket", "ClientHangup", "InvalidGzip",
                       "NonUtf8ContentHeader", "NonUtf8Body",
                       "ParseLineProtocol", "ParseDelete", "ParseHttpDelete"}
    THEN 400
    ELSE IF error = "RequestSizeExceeded" THEN 413
    ELSE IF error = "InvalidContentEncoding" THEN 415
    ELSE IF error = "DmlHandler" THEN StatusCodeFromDmlError(dml)
    ELSE 503

\* request_sem.try_acquire(): a permit if one is left, NoPermits otherwise;
\* it never waits
TryAcquireAlwaysAdmits(p) == [ok |-> TRUE, permits |-> p - 1]

try_acquire(p) ==
    IF p > 0 THEN [ok |-> TRUE, permits |-> p - 1]
    ELSE [ok |-> FALSE, permits |-> p]

\* dropping the SemaphorePermit held in `_permit`
PermitLeaks(p, held) == p

drop_permit(p, held) == IF held THEN p + 1 ELSE p

\* the match on (method, path) in route()
RouteMatchIgnoresMethod(method, path) ==
    IF path = "/api/v2/write" THEN "write"
    ELSE IF path = "/api/v2/delete" THEN "delete"
    ELSE "NoHandler"

route_match(method, path) ==
    IF method = "POST" /\ path = "/api/v2/write" THEN "write"
    ELSE IF method = "POST" /\ path = "/api/v2/delete" THEN "delete"
    ELSE "NoHandler"

\* Precision::default()
PrecisionDefault == "ns"

\* Precision::timestamp_base
TimestampBaseSecondsAsMillis(precision) ==
    IF precision = "s" THEN 1000000
    ELSE IF precision = "ms" THEN 1000000
    ELSE IF precision = "us" THEN 1000
    ELSE 1

timestamp_base(precision) ==
    IF precision = "s" THEN 1000000000
    ELSE IF precision = "ms" THEN 1000000
    ELSE IF precision = "us" THEN 1000
    ELSE 1

\* WriteInfo::try_from(&req): the query string deserialized into org,
\* bucket and precision, or the OrgBucketError
write_info(query) ==
    LET fails(e) == [err |-> e, org |-> "", bucket |-> "", precision |-> "none"]
    IN  IF ~query.present THEN fails("NotSpecified")
        ELSE IF \/ query.org = <<>>
                \/ query.bucket = <<>>
                \/ (query.precision # <<>> /\ query.precision[1] \notin Precisions)
        THEN fails("DecodeFail")
        ELSE IF query.org[1] = "" \/ query.bucket[1] = "" THEN fails("NotSpecified")
        ELSE [err |-> "none", org |-> query.org[1], bucket |-> query.bucket[1],
              precision |-> IF query.precision = <<>> THEN PrecisionDefault
                            ELSE query.precision[1]]

\* the longest database name
MaxDatabaseNameLen == 64

\* data_types::org_and_bucket_to_database: org and bucket joined by "_",
\* refused when a part is empty or the name is too long
org_and_bucket_to_database(org, bucket) ==
    IF org = "" \/ bucket = "" \/ Len(org) + 1 + Len(bucket) > MaxDatabaseNameLen
    THEN [err |-> "MappingFail", namespace |-> ""]
    ELSE [err |-> "none", namespace |-> org \o "_" \o bucket]

\* read_body: the Content-Encoding header
ContentEncodingAnyCase(encoding) ==
    IF encoding = "missing" THEN [err |-> "none", ungzip |-> FALSE]
    ELSE IF encoding \in {"gzip", "GZIP"} THEN [err |-> "none", ungzip |-> TRUE]
    ELSE IF encoding = "non_utf8" THEN [err |-> "NonUtf8ContentHeader", ungzip |-> FALSE]
    ELSE [err |-> "InvalidContentEncoding", ungzip |-> FALSE]

content_encoding(encoding) ==
    IF encoding = "missing" THEN [err |-> "none", ungzip |-> FALSE]
    ELSE IF encoding = "gzip" THEN [err |-> "none", ungzip |-> TRUE]
    ELSE IF encoding = "non_utf8" THEN [err |-> "NonUtf8ContentHeader", ungzip |-> FALSE]
    ELSE [err |-> "InvalidContentEncoding", ungzip |-> FALSE]

\* read_body: one chunk of the stream against the size limit
ChunkCheckedAfterAppend(len, chunk) ==
    [exceeded |-> len > max_request_bytes, len |-> len + chunk]

accept_chunk(len, chunk) ==
    IF len + chunk > max_request_bytes
    THEN [exceeded |-> TRUE, len |-> len]
    ELSE [exceeded |-> FALSE, len |-> len + chunk]

\* Read::take(limit).read_to_end over the decoder: the bytes materialised
\* and whether the decoder's failure was met
TakeReadToEnd(gz, limit) ==
    IF gz.len >= limit
    THEN [err |-> FALSE, len |-> limit]
    ELSE [err |-> gz.corrupt, len |-> gz.len]

\* read_body: the gzip stage
GunzipTruncates(gz) ==
    LET got == TakeReadToEnd(gz, max_request_bytes)
    IN  IF got.err THEN [err |-> "InvalidGzip", decoded |-> got.len, body |-> -1]
        ELSE [err |-> "none", decoded |-> got.len, body |-> got.len]

gunzip(gz) ==
    LET got == TakeReadToEnd(gz, max_request_bytes + 1)
    IN  IF got.err THEN [err |-> "InvalidGzip", decoded |-> got.len, body |-> -1]
        ELSE IF got.len > max_request_bytes
        THEN [err |-> "RequestSizeExceeded", decoded |-> got.len, body |-> -1]
        ELSE [err |-> "none", decoded |-> got.len, body |-> got.len]

\* the number of decimal digits of b, less one
RECURSIVE Log10(_)
Log10(b) == IF b < 10 THEN 0 ELSE 1 + Log10(b \div 10)

RECURSIVE Pow10(_)
Pow10(n) == IF n = 0 THEN 1 ELSE 10 * Pow10(n - 1)

\* i64::checked_mul(ts, base) for ts = m * 10^e (m of at most four digits)
\* and base a power of ten: None when the product is above i64::MAX =
\* 9223372036854775807, a number of 19 digits that starts 9223
checked_mul(ts, base) ==
    LET e == ts.e + Log10(base)
        digits == Log10(ts.m) + 1 + e
        lead == ts.m * Pow10(3 - Log10(ts.m))
    IN  IF digits > 19 \/ (digits = 19 /\ lead > 9223)
        THEN <<>>
        ELSE <<[m |-> ts.m, e |-> e]>>

\* the time of a row: the converter's default_time (the wall clock) or a
\* timestamp in nanoseconds
DefaultTime == [default |-> TRUE, m |-> 0, e |-> 0]
TimeOf(ts) == [default |-> FALSE, m |-> ts.m, e |-> ts.e]

\* the name of the timestamp column
TimeColumn == "time"

\* mutable_batch_lp's write of one line into the table's batch, up to the
\* timestamp: a tag key written twice fails, a field with the key of a tag
\* fails for the column's type, a field key written with two types fails,
\* and a field named time fails for the type of the time column
WriteLineAllowsDuplicateTags(line) ==
    LET tag_keys == {line.tags[i].key : i \in 1..Len(line.tags)}
        F == 1..Len(line.fields)
    IN  IF \E i \in F : line.fields[i].key \in tag_keys
        THEN "TypeMismatch"
        ELSE IF \E i, j \in F : /\ line.fields[i].key = line.fields[j].key
                                 /\ line.fields[i].type # line.fields[j].type
        THEN "ConflictedFieldTypes"
        ELSE IF \E i \in F : line.fields[i].key = TimeColumn
        THEN "TypeMismatch"
        ELSE "none"

write_line(line) ==
    LET tag_keys == {line.tags[i].key : i \in 1..Len(line.tags)}
        F == 1..Len(line.fields)
    IN  IF Cardinality(tag_keys) < Len(line.tags)
        THEN "DuplicateTag"
        ELSE IF \E i \in F : line.fields[i].key \in tag_keys
        THEN "TypeMismatch"
        ELSE IF \E i, j \in F : /\ line.fields[i].key = line.fields[j].key
                                 /\ line.fields[i].type # line.fields[j].type
        THEN "ConflictedFieldTypes"
        ELSE IF \E i \in F : line.fields[i].key = TimeColumn
        THEN "TypeMismatch"
        ELSE "none"

\* the tag columns of the row of a line
tag_columns(line) ==
    [k \in {line.tags[i].key : i \in 1..Len(line.tags)} |->
        LET i == SetMax({n \in 1..Len(line.tags) : line.tags[n].key = k})
        IN  line.tags[i].value]

\* the field columns of the row of a line: of the values written for one
\* key the last
field_columns(line) ==
    [k \in {line.fields[i].key : i \in 1..Len(line.fields)} |->
        LET i == SetMax({n \in 1..Len(line.fields) : line.fields[n].key = k})
        IN  [type |-> line.fields[i].type, value |-> line.fields[i].value]]

\* PayloadStatistics::num_fields: the fields of the lines as written
RECURSIVE SumFields(_)
SumFields(lines) ==
    IF Len(lines) = 0 THEN 0
    ELSE Len(lines[1].fields) + SumFields(Tail(lines))

\* LinesConverter::write_lp and finish with the timestamp base set: the
\* rows in the order of the lines, each timestamp multiplied by the base,
\* and the statistics; the first error otherwise
\* rows of one table, tag set and timestamp are merged into the last
WriteLpUpserts(lines, base) ==
    LET scaled(i) == IF lines[i].ts = <<>> THEN <<DefaultTime>>
                     ELSE LET t == checked_mul(lines[i].ts[1], base)
                          IN  IF t = <<>> THEN <<>> ELSE <<TimeOf(t[1])>>
        failed(i) == IF write_line(lines[i]) # "none" THEN write_line(lines[i])
                     ELSE IF scaled(i) = <<>> THEN "TimestampOverflow"
                     ELSE "none"
        bad == {i \in 1..Len(lines) : failed(i) # "none"}
        row(i) == [table |-> lines[i].table, time |-> scaled(i)[1],
                   tags |-> tag_columns(lines[i]),
                   fields |-> field_columns(lines[i])]
        same(i, j) == /\ row(i).table = row(j).table
                      /\ row(i).time = row(j).time
                      /\ row(i).tags = row(j).tags
        kept == SelectSeq([i \in 1..Len(lines) |-> i],
                          LAMBDA i : \A j \in (i + 1)..Len(lines) : ~same(i, j))
    IN  IF Len(lines) = 0
        THEN [err |-> "EmptyPayload", rows |-> <<>>, stats |-> NoStats]
        ELSE IF bad # {}
        THEN [err |-> failed(SetMin(bad)), rows |-> <<>>, stats |-> NoStats]
        ELSE [err |-> "none",
              rows |-> [n \in 1..Len(kept) |-> row(kept[n])],
              stats |-> [num_lines |-> Len(lines),
                         num_fields |-> SumFields(lines),
                         num_tables |->
                            Cardinality({lines[i].table : i \in 1..Len(lines)})]]

\* of the values written for one field key the first is kept
WriteLpKeepsFirstField(lines, base) ==
    LET scaled(i) == IF lines[i].ts = <<>> THEN <<DefaultTime>>
                     ELSE LET t == checked_mul(lines[i].ts[1], base)
                          IN  IF t = <<>> THEN <<>> ELSE <<TimeOf(t[1])>>
        failed(i) == IF write_line(lines[i]) # "none" THEN write_line(lines[i])
                     ELSE IF scaled(i) = <<>> THEN "TimestampOverflow"
                     ELSE "none"
        bad == {i \in 1..Len(lines) : failed(i) # "none"}
        first(line) ==
            [k \in {line.fields[j].key : j \in 1..Len(line.fields)} |->
                LET j == SetMin({n \in 1..Len(line.fields) : line.fields[n].key = k})
                IN  [type |-> line.fields[j].type, value |-> line.fields[j].value]]
    IN  IF Len(lines) = 0
        THEN [err |-> "EmptyPayload", rows |-> <<>>, stats |-> NoStats]
        ELSE IF bad # {}
        THEN [err |-> failed(SetMin(bad)), rows |-> <<>>, stats |-> NoStats]
        ELSE [err |-> "none",
              rows |-> [i \in 1..Len(lines) |->
                          [table |-> lines[i].table, time |-> scaled(i)[1],
                           tags |-> tag_columns(lines[i]),
                           fields |-> first(lines[i])]],
              stats |-> [num_lines |-> Len(lines),
                         num_fields |-> SumFields(lines),
                         num_tables |->
                            Cardinality({lines[i].table : i \in 1..Len(lines)})]]

write_lp(lines, base) ==
    LET scaled(i) == IF lines[i].ts = <<>> THEN <<DefaultTime>>
                     ELSE LET t == checked_mul(lines[i].ts[1], base)
                          IN  IF t = <<>> THEN <<>> ELSE <<TimeOf(t[1])>>
        failed(i) == IF write_line(lines[i]) # "none" THEN write_line(lines[i])
                     ELSE IF scaled(i) = <<>> THEN "TimestampOverflow"
                     ELSE "none"
        bad == {i \in 1..Len(lines) : failed(i) # "none"}
    IN  IF Len(lines) = 0
        THEN [err |-> "EmptyPayload", rows |-> <<>>, stats |-> NoStats]
        ELSE IF bad # {}
        THEN [err |-> failed(SetMin(bad)), rows |-> <<>>, stats |-> NoStats]
        ELSE [err |-> "none",
              rows |-> [i \in 1..Len(lines) |->
                          [table |-> lines[i].table, time |-> scaled(i)[1],
                           tags |-> tag_columns(lines[i]),
                           fields |-> field_columns(lines[i])]],
              stats |-> [num_lines |-> Len(lines),
                         num_fields |-> SumFields(lines),
                         num_tables |->
                            Cardinality({lines[i].table : i \in 1..Len(lines)})]]

\* predicate::delete_predicate::parse_delete_predicate: the time range and
\* the expressions of an envelope that parsed; fails when a time is none
parse_delete_predicate(content) ==
    IF content.start = NoTime \/ content.stop = NoTime THEN "ParseDelete"
    ELSE "none"

\* predicate::delete_predicate::parse_http_delete_request of an envelope:
\* the table name is the value of the predicate's _measurement equality
\* (empty when it has none), the predicate the expressions over the columns
parse_http_delete_request(content) ==
    LET named == SelectSeq(content.predicate,
                           LAMBDA e : e.column = MeasurementColumn)
    IN  [table |-> IF named = <<>> THEN "" ELSE named[1].value,
         predicate |-> SelectSeq(content.predicate,
                                 LAMBDA e : e.column # MeasurementColumn)]

\* write_handler / delete_handler between read_body and the DML call:
\* UTF-8 decoding, then parsing.  Gives the outcome, and for "Ok" the input
\* of the DML call and the statistics of the parse.
ParseBodyEmptyPayloadFails(handler, content, precision) ==
    LET gives(res) == [res |-> res, source |-> "none", input |-> <<>>,
                       stats |-> NoStats]
    IN  IF content.kind = "not_utf8" THEN gives("NonUtf8Body")
        ELSE IF handler = "write"
        THEN (IF content.kind = "parses"
              THEN LET lp == write_lp(content.lines, timestamp_base(precision))
                   IN  IF lp.err # "none" THEN gives("ParseLineProtocol")
                       ELSE [res |-> "Ok", input |-> lp.rows, stats |-> lp.stats]
              ELSE gives("ParseLineProtocol"))
        ELSE (IF content.kind # "envelope" THEN gives("ParseHttpDelete")
              ELSE IF parse_delete_predicate(content) # "none"
              THEN gives("ParseDelete")
              ELSE [res |-> "Ok", source |-> "none",
                    input |-> <<parse_http_delete_request(content)>>,
                    stats |-> NoStats])

parse_body(handler, content, precision) ==
    LET gives(res) == [res |-> res, source |-> "none", input |-> <<>>,
                       stats |-> NoStats]
    IN  IF content.kind = "not_utf8" THEN gives("NonUtf8Body")
        ELSE IF handler = "write"
        THEN (IF content.kind = "blank" THEN gives("EmptyPayload")
              ELSE IF content.kind \in {"malformed", "envelope"}
              THEN gives("ParseLineProtocol")
              ELSE LET lp == write_lp(content.lines, timestamp_base(precision))
                   IN  IF lp.err = "EmptyPayload" THEN gives("EmptyPayload")
                       ELSE IF lp.err # "none"
                       THEN [res |-> "ParseLineProtocol", source |-> lp.err,
                             input |-> <<>>, stats |-> NoStats]
                       ELSE [res |-> "Ok", source |-> "none", input |-> lp.rows,
                             stats |-> lp.stats])
        ELSE (IF content.kind # "envelope" THEN gives("ParseHttpDelete")
              ELSE IF parse_delete_predicate(content) # "none"
              THEN gives("ParseDelete")
              ELSE [res |-> "Ok", source |-> "none",
                    input |-> <<parse_http_delete_request(content)>>,
                    stats |-> NoStats])

\* WriteSummary::to_token
to_token(summary) == "token:" \o summary

\* what the client is sent for route()'s return value: route() maps Ok to
\* 204 with the token header, the server maps Err by as_status_code
response(res, carried) ==
    IF res = "Ok"
    THEN [status |-> 204, token |-> <<to_token(carried)>>]
    ELSE [status |-> as_status_code(res, carried), token |-> <<>>]

\* route() from its call to its first await (the first poll of the body
\* stream) or to its return: admission, routing, the query string and the
\* Content-Encoding header.  p: the permits left.  Gives the permits left
\* afterwards, the increment of http_request_limit_rejected, what route()
\* returned ("none" while it awaits) with what the error carries, and the
\* request future.
\* the request is routed before a permit is taken
RouteEntryRoutesFirst(p, q) ==
    LET a == try_acquire(p)
        h == route_match(q.method, q.path)
        w == write_info(q.query)
        n == org_and_bucket_to_database(w.org, w.bucket)
        e == content_encoding(q.encoding)
        returned(res, carried) ==
            [permits |-> drop_permit(a.permits, TRUE), rejected |-> 0,
             result |-> res, detail |-> carried, fut |-> Gone]
    IN  IF h = "NoHandler"
        THEN [permits |-> p, rejected |-> 0,
              result |-> "NoHandler", detail |-> "none", fut |-> Gone]
        ELSE IF ~a.ok
        THEN [permits |-> a.permits, rejected |-> 1,
              result |-> "RequestLimit", detail |-> "none", fut |-> Gone]
        ELSE IF w.err # "none" THEN returned("InvalidOrgBucket", w.err)
        ELSE IF n.err # "none" THEN returned("InvalidOrgBucket", n.err)
        ELSE IF e.err = "InvalidContentEncoding" THEN returned(e.err, q.encoding)
        ELSE IF e.err # "none" THEN returned(e.err, "none")
        ELSE [permits |-> a.permits, rejected |-> 0, result |-> "none",
              detail |-> "none",
              fut |-> [pc |-> "reading", permit |-> TRUE, handler |-> h,
                       ungzip |-> e.ungzip, body |-> 0,
                       namespace |-> n.namespace, precision |-> w.precision,
                       stats |-> NoStats, stalled |-> FALSE]]

\* the Content-Encoding header is looked at before the query string
RouteEntryEncodingFirst(p, q) ==
    LET a == try_acquire(p)
        h == route_match(q.method, q.path)
        w == write_info(q.query)
        n == org_and_bucket_to_database(w.org, w.bucket)
        e == content_encoding(q.encoding)
        returned(res, carried) ==
            [permits |-> drop_permit(a.permits, TRUE), rejected |-> 0,
             result |-> res, detail |-> carried, fut |-> Gone]
    IN  IF ~a.ok
        THEN [permits |-> a.permits, rejected |-> 1,
              result |-> "RequestLimit", detail |-> "none", fut |-> Gone]
        ELSE IF h = "NoHandler" THEN returned("NoHandler", "none")
        ELSE IF e.err = "InvalidContentEncoding" THEN returned(e.err, q.encoding)
        ELSE IF e.err # "none" THEN returned(e.err, "none")
        ELSE IF w.err # "none" THEN returned("InvalidOrgBucket", w.err)
        ELSE IF n.err # "none" THEN returned("InvalidOrgBucket", n.err)
        ELSE [permits |-> a.permits, rejected |-> 0, result |-> "none",
              detail |-> "none",
              fut |-> [pc |-> "reading", permit |-> TRUE, handler |-> h,
                       ungzip |-> e.ungzip, body |-> 0,
                       namespace |-> n.namespace, precision |-> w.precision,
                       stats |-> NoStats, stalled |-> FALSE]]

RouteEntryRejectionFallsThrough(p, q) ==
    LET a == try_acquire(p)
        h == route_match(q.method, q.path)
        w == write_info(q.query)
        n == org_and_bucket_to_database(w.org, w.bucket)
        e == content_encoding(q.encoding)
        returned(res, carried) ==
            [permits |-> drop_permit(a.permits, a.ok), rejected |-> 0,
             result |-> res, detail |-> carried, fut |-> Gone]
    IN  IF h = "NoHandler" THEN returned("NoHandler", "none")
        ELSE IF w.err # "none" THEN returned("InvalidOrgBucket", w.err)
        ELSE IF n.err # "none" THEN returned("InvalidOrgBucket", n.err)
        ELSE IF e.err = "InvalidContentEncoding" THEN returned(e.err, q.encoding)
        ELSE IF e.err # "none" THEN returned(e.err, "none")
        ELSE [permits |-> a.permits,
              rejected |-> IF a.ok THEN 0 ELSE 1,
              result |-> IF a.ok THEN "none" ELSE "RequestLimit",
              detail |-> "none",
              fut |-> [pc |-> "reading", permit |-> a.ok, handler |-> h,
                       ungzip |-> e.ungzip, body |-> 0,
                       namespace |-> n.namespace, precision |-> w.precision,
                       stats |-> NoStats, stalled |-> FALSE]]

route_entry(p, q) ==
    LET a == try_acquire(p)
        h == route_match(q.method, q.path)
        w == write_info(q.query)
        n == org_and_bucket_to_database(w.org, w.bucket)
        e == content_encoding(q.encoding)
        returned(res, carried) ==
            [permits |-> drop_permit(a.permits, TRUE), rejected |-> 0,
             result |-> res, detail |-> carried, fut |-> Gone]
    IN  IF ~a.ok
        THEN [permits |-> a.permits, rejected |-> 1,
              result |-> "RequestLimit", detail |-> "none", fut |-> Gone]
        ELSE IF h = "NoHandler" THEN returned("NoHandler", "none")
        ELSE IF w.err # "none" THEN returned("InvalidOrgBucket", w.err)
        ELSE IF n.err # "none" THEN returned("InvalidOrgBucket", n.err)
        ELSE IF e.err = "InvalidContentEncoding" THEN returned(e.err, q.encoding)
        ELSE IF e.err # "none" THEN returned(e.err, "none")
        ELSE [permits |-> a.permits, rejected |-> 0, result |-> "none",
              detail |-> "none",
              fut |-> [pc |-> "reading", permit |-> TRUE, handler |-> h,
                       ungzip |-> e.ungzip, body |-> 0,
                       namespace |-> n.namespace, precision |-> w.precision,
                       stats |-> NoStats, stalled |-> FALSE]]

InitRouterState ==
    /\ permits = max_requests
    /\ req = [r \in Reqs |-> Idle]
    /\ result = [r \in Reqs |-> "none"]
    /\ detail = [r \in Reqs |-> "none"]
    /\ dml_args = [r \in Reqs |-> NoCall]
    /\ dml_calls = [r \in Reqs |-> 0]
    /\ rejected = 0
    /\ metrics = NoMetrics
    /\ decoded_over = 0

InitRouter ==
    /\ InitBuffer
    /\ InitCompact
    /\ InitQuery
    /\ sent = NotSent
    /\ max_requests \in 0..MaxPermits
    /\ InitRouterState

InitRouterParked ==
    /\ InitBuffer
    /\ InitCompact
    /\ InitQuery
    /\ sent = NotSent
    /\ max_requests = 0
    /\ InitRouterState

\* route() returns `res` (or the future is dropped): the locals go, and with
\* them the permit
Return(r, res, carried) ==
    /\ req' = [req EXCEPT ![r] = Gone]
    /\ result' = [result EXCEPT ![r] = res]
    /\ detail' = [detail EXCEPT ![r] = carried]
    /\ permits' = drop_permit(permits, req[r].permit)

\* route() is called and runs to its first await
Arrive(r, q) ==
    /\ req[r].pc = "idle"
    \* requests are numbered in the order they arrive
    /\ \A o \in Reqs : o < r => req[o].pc # "idle"
    /\ LET e == route_entry(permits, q)
       IN  /\ req' = [req EXCEPT ![r] = e.fut]
           /\ result' = [result EXCEPT ![r] = e.result]
           /\ detail' = [detail EXCEPT ![r] = e.detail]
           /\ permits' = e.permits
           /\ rejected' = rejected + e.rejected
    /\ UNCHANGED <<max_requests, dml_args, dml_calls, metrics, decoded_over>>
    /\ UNCHANGED bufferVars
    /\ UNCHANGED compactVars
    /\ UNCHANGED queryVars
    /\ UNCHANGED clientVars

\* payload.next() yields Some(Ok(chunk))
ReadChunk(r, chunk) ==
    /\ req[r].pc = "reading"
    /\ ~req[r].stalled
    /\ LET c == accept_chunk(req[r].body, chunk)
       IN  IF c.exceeded
           THEN Return(r, "RequestSizeExceeded", "none")
           ELSE /\ req' = [req EXCEPT ![r].body = c.len]
                /\ UNCHANGED <<result, detail, permits>>
    /\ UNCHANGED <<max_requests, dml_args, dml_calls, rejected, metrics,
                   decoded_over>>
    /\ UNCHANGED bufferVars
    /\ UNCHANGED compactVars
    /\ UNCHANGED queryVars
    /\ UNCHANGED clientVars

\* payload.next() yields Some(Err(_))
ReadError(r) ==
    /\ req[r].pc = "reading"
    /\ ~req[r].stalled
    /\ Return(r, "ClientHangup", "none")
    /\ UNCHANGED <<max_requests, dml_args, dml_calls, rejected, metrics,
                   decoded_over>>
    /\ UNCHANGED bufferVars
    /\ UNCHANGED compactVars
    /\ UNCHANGED queryVars
    /\ UNCHANGED clientVars

\* read_body hands on the bytes as they were read
EndOfBodyKeepsRawLength(r, gz, content) ==
    /\ req[r].pc = "reading"
    /\ ~req[r].stalled
    \* only a gzip request's body is looked at as a gzip stream
    /\ req[r].ungzip \/ gz = [len |-> 0, corrupt |-> FALSE]
    \* no bytes inflate to no bytes
    /\ (req[r].ungzip /\ req[r].body = 0) => gz.len = 0
    /\ LET g == IF req[r].ungzip THEN gunzip(gz)
                ELSE [err |-> "none", decoded |-> 0, body |-> req[r].body]
           p == parse_body(req[r].handler, content, req[r].precision)
       IN  \* a body of no bytes holds no line, and a body read_body did not
           \* return is never looked at
           /\ (g.err # "none" \/ g.body = 0) => content.kind = "blank"
           /\ decoded_over' = IF g.decoded > max_request_bytes
                              THEN Max2(decoded_over, g.decoded)
                              ELSE decoded_over
           /\ IF g.err # "none"
              THEN Return(r, g.err, "none") /\ UNCHANGED <<dml_args, dml_calls>>
              ELSE IF p.res = "EmptyPayload"
              THEN Return(r, "Ok", WriteSummaryDefault)
                   /\ UNCHANGED <<dml_args, dml_calls>>
              ELSE IF p.res # "Ok"
              THEN Return(r, p.res, p.source) /\ UNCHANGED <<dml_args, dml_calls>>
              ELSE /\ req' = [req EXCEPT ![r].pc = "dml", ![r].ungzip = FALSE,
                                          ![r].body = req[r].body,
                                          ![r].stats = p.stats]
                   /\ dml_args' = [dml_args EXCEPT ![r] =
                                      [op |-> req[r].handler,
                                       namespace |-> req[r].namespace,
                                       input |-> p.input]]
                   /\ dml_calls' = [dml_calls EXCEPT ![r] = @ + 1]
                   /\ UNCHANGED <<result, detail, permits>>
    /\ UNCHANGED <<max_requests, rejected, metrics>>
    /\ UNCHANGED bufferVars
    /\ UNCHANGED compactVars
    /\ UNCHANGED queryVars
    /\ UNCHANGED clientVars

\* payload.next() yields None: the body is complete; read_body finishes, the
\* handler decodes and parses it and runs to the await of the DML call.
\* gz is what the body is as a gzip stream, content what its bytes are.
EndOfBody(r, gz, content) ==
    /\ req[r].pc = "reading"
    /\ ~req[r].stalled
    \* only a gzip request's body is looked at as a gzip stream
    /\ req[r].ungzip \/ gz = [len |-> 0, corrupt |-> FALSE]
    \* no bytes inflate to no bytes
    /\ (req[r].ungzip /\ req[r].body = 0) => gz.len = 0
    /\ LET g == IF req[r].ungzip THEN gunzip(gz)
                ELSE [err |-> "none", decoded |-> 0, body |-> req[r].body]
           p == parse_body(req[r].handler, content, req[r].precision)
       IN  \* a body of no bytes holds no line, and a body read_body did not
           \* return is never looked at
           /\ (g.err # "none" \/ g.body = 0) => content.kind = "blank"
           /\ decoded_over' = IF g.decoded > max_request_bytes
                              THEN Max2(decoded_over, g.decoded)
                              ELSE decoded_over
           /\ IF g.err # "none"
              THEN Return(r, g.err, "none") /\ UNCHANGED <<dml_args, dml_calls>>
              ELSE IF p.res = "EmptyPayload"
              THEN Return(r, "Ok", WriteSummaryDefault)
                   /\ UNCHANGED <<dml_args, dml_calls>>
              ELSE IF p.res # "Ok"
              THEN Return(r, p.res, p.source) /\ UNCHANGED <<dml_args, dml_calls>>
              ELSE /\ req' = [req EXCEPT ![r].pc = "dml", ![r].ungzip = FALSE,
                                          ![r].body = g.body,
                                          ![r].stats = p.stats]
                   /\ dml_args' = [dml_args EXCEPT ![r] =
                                      [op |-> req[r].handler,
                                       namespace |-> req[r].namespace,
                                       input |-> p.input]]
                   /\ dml_calls' = [dml_calls EXCEPT ![r] = @ + 1]
                   /\ UNCHANGED <<result, detail, permits>>
    /\ UNCHANGED <<max_requests, rejected, metrics>>
    /\ UNCHANGED bufferVars
    /\ UNCHANGED compactVars
    /\ UNCHANGED queryVars
    /\ UNCHANGED clientVars

\* the DML handler's future resolves
DmlReturnSkipsMetrics(r, outcome) ==
    /\ req[r].pc = "dml"
    /\ ~req[r].stalled
    /\ IF outcome.ok
       THEN Return(r, "Ok", IF req[r].handler = "write" THEN outcome.value
                            ELSE WriteSummaryDefault)
       ELSE Return(r, "DmlHandler", outcome.value)
    /\ UNCHANGED <<max_requests, dml_args, dml_calls, rejected, metrics,
                   decoded_over>>
    /\ UNCHANGED bufferVars
    /\ UNCHANGED compactVars
    /\ UNCHANGED queryVars
    /\ UNCHANGED clientVars

\* the body bytes are counted before the DML handler's answer is looked at
DmlReturnCountsFailures(r, outcome) ==
    /\ req[r].pc = "dml"
    /\ ~req[r].stalled
    /\ metrics' =
         IF req[r].handler = "write"
         THEN (IF outcome.ok
               THEN [metrics EXCEPT
                       !.write_lines = @ + req[r].stats.num_lines,
                       !.write_fields = @ + req[r].stats.num_fields,
                       !.write_tables = @ + req[r].stats.num_tables,
                       !.write_body_bytes = @ + req[r].body]
               ELSE metrics)
         ELSE [metrics EXCEPT !.delete_body_bytes = @ + req[r].body]
    /\ IF outcome.ok
       THEN Return(r, "Ok", IF req[r].handler = "write" THEN outcome.value
                            ELSE WriteSummaryDefault)
       ELSE Return(r, "DmlHandler", outcome.value)
    /\ UNCHANGED <<max_requests, dml_args, dml_calls, rejected, decoded_over>>
    /\ UNCHANGED bufferVars
    /\ UNCHANGED compactVars
    /\ UNCHANGED queryVars
    /\ UNCHANGED clientVars

DmlReturn(r, outcome) ==
    /\ req[r].pc = "dml"
    /\ ~req[r].stalled
    /\ IF outcome.ok
       THEN /\ metrics' =
                 IF req[r].handler = "write"
                 THEN [metrics EXCEPT
                         !.write_lines = @ + req[r].stats.num_lines,
                         !.write_fields = @ + req[r].stats.num_fields,
                         !.write_tables = @ + req[r].stats.num_tables,
                         !.write_body_bytes = @ + req[r].body]
                 ELSE [metrics EXCEPT !.delete_body_bytes = @ + req[r].body]
            \* the write handler passes the DML handler's summary on, the
            \* delete handler answers with the default one
            /\ Return(r, "Ok", IF req[r].handler = "write" THEN outcome.value
                               ELSE WriteSummaryDefault)
       ELSE /\ UNCHANGED metrics
            /\ Return(r, "DmlHandler", outcome.value)
    /\ UNCHANGED <<max_requests, dml_args, dml_calls, rejected, decoded_over>>
    /\ UNCHANGED bufferVars
    /\ UNCHANGED compactVars
    /\ UNCHANGED queryVars
    /\ UNCHANGED clientVars

\* the caller drops the request future while it waits at an await
DropFuture(r) ==
    /\ req[r].pc \in {"reading", "dml"}
    /\ Return(r, "Dropped", "none")
    /\ UNCHANGED <<max_requests, dml_args, dml_calls, rejected, metrics,
                   decoded_over>>
    /\ UNCHANGED bufferVars
    /\ UNCHANGED compactVars
    /\ UNCHANGED queryVars
    /\ UNCHANGED clientVars

NextRouter ==
    \/ \E r \in Reqs, q \in Requests : Arrive(r, q)
    \/ \E r \in Reqs, chunk \in 0..MaxChunk : ReadChunk(r, chunk)
    \/ \E r \in Reqs : ReadError(r)
    \/ \E r \in Reqs, gz \in GzStreams, content \in Contents : EndOfBody(r, gz, content)
    \/ \E r \in Reqs, outcome \in DmlOutcomes : DmlReturn(r, outcome)
    \/ \E r \in Reqs : DropFuture(r)

SpecRouter == InitRouter /\ [][NextRouter]_vars

\* the gzip streams that end a body in different ways: the decoder reads
\* max_request_bytes + 1 bytes at most, and a corrupt stream within the
\* limit fails wherever it is corrupt
StreamsOf(r) ==
    IF req[r].ungzip
    THEN {gz \in GzStreams : /\ gz.len <= max_request_bytes + 1
                             /\ gz.corrupt => gz.len <= 1}
    ELSE {[len |-> 0, corrupt |-> FALSE]}

\* the await request r waits at resolves: the body stream yields, fails or
\* ends, the DML handler returns
Progress(r) ==
    \/ /\ req[r].pc = "reading"
       /\ ~req[r].stalled
       /\ \/ ReadError(r)
          \/ \E chunk \in 0..MaxChunk : ReadChunk(r, chunk)
          \/ \E gz \in StreamsOf(r), content \in Contents :
                EndOfBody(r, gz, content)
    \/ /\ req[r].pc = "dml"
       /\ ~req[r].stalled
       /\ \E outcome \in DmlOutcomes : DmlReturn(r, outcome)

\* route() has no timeout: payload.next().await and the await of the DML
\* handler's call pend for as long as the client and the handler let them.
\* From this step on the future request r awaits is never ready; r keeps
\* its locals and its permit, and only a drop of its future ends it.
Stall(r) ==
    /\ req[r].pc \in {"reading", "dml"}
    /\ ~req[r].stalled
    /\ req' = [req EXCEPT ![r].stalled = TRUE]
    /\ UNCHANGED <<max_requests, permits, result, detail, dml_args, dml_calls,
                   rejected, metrics, decoded_over>>
    /\ UNCHANGED bufferVars
    /\ UNCHANGED compactVars
    /\ UNCHANGED queryVars
    /\ UNCHANGED clientVars

NextRouterFair ==
    \/ NextRouter
    \/ \E r \in Reqs : Stall(r)

\* The runtime polls a request's task when the future it awaits is ready.
\* Whether that future ever is ready is the client's and the DML handler's
\* choice and is not assumed: a wait that never ends is the step Stall, and
\* a drop of the request future is never required.  Progress(r) is the
\* step of a request whose awaited future does become ready.
SpecRouterFair ==
    InitRouter /\ [][NextRouterFair]_vars /\ \A r \in Reqs : WF_vars(Progress(r))

SpecBuffer == InitRouterParked /\ [][NextBuffer]_vars

\* One request at a time through HttpDelegate, with every request, every
\* body and every answer of the DML handler.
InitHandler ==
    /\ InitBuffer
    /\ InitCompact
    /\ InitQuery
    /\ sent = NotSent
    /\ max_requests \in {0, 1}
    /\ InitRouterState

NextHandler ==
    \/ \E q \in AllRequests : Arrive(1, q)
    \/ \E chunk \in 0..MaxChunk : ReadChunk(1, chunk)
    \/ ReadError(1)
    \/ \E gz \in GzStreams, content \in AllContents : EndOfBody(1, gz, content)
    \/ \E outcome \in AllDmlOutcomes : DmlReturn(1, outcome)
    \/ DropFuture(1)

SpecHandler == InitHandler /\ [][NextHandler]_vars

\* One client sends the same body twice to one HttpDelegate: request Plain
\* carries b as it is, request Gzipped carries gzip(b) with
\* Content-Encoding: gzip.  Both bodies arrive whole.
Plain == 1
Gzipped == 2
Encoded == {Plain, Gzipped}

\* the bytes of the request's body on the wire
WireLength(r) == IF r = Plain THEN sent.body.len ELSE sent.body.gzip_len

\* the request as route() is given it
SentRequest(r) ==
    [method |-> sent.method, path |-> sent.path, query |-> sent.query,
     encoding |-> IF r = Plain THEN "missing" ELSE "gzip"]

\* the body as the gzip decoder sees it
SentStream(r) ==
    IF r = Plain THEN [len |-> 0, corrupt |-> FALSE]
    ELSE [len |-> sent.body.len, corrupt |-> FALSE]

\* what the bytes read_body returns are; a body it does not return is
\* never looked at
SentContent(r) ==
    IF r = Gzipped /\ gunzip(SentStream(r)).err # "none" THEN Body("blank", <<>>)
    ELSE sent.body.content

InitEncoding ==
    /\ InitBuffer
    /\ InitCompact
    /\ InitQuery
    /\ max_requests = MaxPermits
    /\ InitRouterState
    /\ sent \in SentRequests

SendRequest(r) == Arrive(r, SentRequest(r))

\* the next chunk of the body: some of the bytes not yet sent
SendChunk(r, chunk) ==
    /\ req[r].body + chunk <= WireLength(r)
    /\ ReadChunk(r, chunk)

\* the body ends once all of it was sent
SendEnd(r) ==
    /\ req[r].body = WireLength(r)
    /\ EndOfBody(r, SentStream(r), SentContent(r))

Answer(r) == DmlReturn(r, sent.outcome)

NextEncoding ==
    \/ \E r \in Encoded : SendRequest(r)
    \/ \E r \in Encoded, chunk \in 1..MaxChunk : SendChunk(r, chunk)
    \/ \E r \in Encoded : SendEnd(r)
    \/ \E r \in Encoded : Answer(r)

SpecEncoding == InitEncoding /\ [][NextEncoding]_vars

\* One client writes a body of line protocol, plain and gzipped, to
\* /api/v2/write?org=bananas&bucket=test: a line that repeats tag or field
\* keys, or lines for one series and timestamp.
LineRequests ==
    [method : {"POST"}, path : {"/api/v2/write"}, query : {OrgBucketQuery},
     body : [len : {1}, content : LineContents, gzip_len : {1}],
     outcome : DmlOutcomes]

InitLines ==
    /\ InitBuffer
    /\ InitCompact
    /\ InitQuery
    /\ max_requests = MaxPermits
    /\ InitRouterState
    /\ sent \in LineRequests

SpecLines == InitLines /\ [][NextEncoding]_vars


----------------------------------------------------------------------------
(* Compaction: the specification. *)

\* compact_persisting_batch(executor, sort_key, batch) is polled for the
\* first time: the keys are chosen, compact builds the logical plan with
\* data_sort_key and calls create_physical_plan, which is not ready
CompactPersistingBatch(sort_key, data) ==
    /\ compacted.pc \in {"idle", "returned"}
    /\ compacted' = [pc |-> "create_physical_plan", sort_key |-> sort_key,
                     data |-> data, keys |-> sort_keys(sort_key, data),
                     out |-> NotReturned]
    /\ UNCHANGED <<persisting, collected>>
    /\ UNCHANGED bufferVars
    /\ UNCHANGED routerVars
    /\ UNCHANGED queryVars
    /\ UNCHANGED clientVars

\* the physical plan is ready: compact calls execute_stream, which is not
\* ready
CreatePhysicalPlanReady ==
    /\ compacted.pc = "create_physical_plan"
    /\ compacted' = [compacted EXCEPT !.pc = "execute_stream"]
    /\ UNCHANGED <<persisting, collected>>
    /\ UNCHANGED bufferVars
    /\ UNCHANGED routerVars
    /\ UNCHANGED queryVars
    /\ UNCHANGED clientVars

\* the stream is ready: compact returns it and compact_persisting_batch
\* returns Ok(CompactedStream) with the keys it chose
ExecuteStreamReady ==
    /\ compacted.pc = "execute_stream"
    /\ compacted' =
          [compacted EXCEPT
              !.pc = "returned",
              !.out = CompactedStream(
                         compact(compacted.data, compacted.keys.data_sort_key),
                         compacted.keys)]
    /\ UNCHANGED <<persisting, collected>>
    /\ UNCHANGED bufferVars
    /\ UNCHANGED routerVars
    /\ UNCHANGED queryVars
    /\ UNCHANGED clientVars

NextCompact ==
    \/ \E sort_key \in Option(SortKeys), data \in PersistingBatches :
          CompactPersistingBatch(sort_key, data)
    \/ CreatePhysicalPlanReady
    \/ ExecuteStreamReady

InitCompaction ==
    /\ InitBuffer
    /\ max_requests = 0
    /\ InitRouterState
    /\ InitCompact
    /\ InitQuery
    /\ sent = NotSent

SpecCompact == InitCompaction /\ [][NextCompact]_vars

\* ---- compaction of rows ----

\* a persisting batch and the catalog sort key of its partition
InitPersisting ==
    /\ InitBuffer
    /\ max_requests = 0
    /\ InitRouterState
    /\ compacted = NoCompaction
    /\ persisting \in [sort_key : Option(CatalogSortKeys), data : QueryableBatches]
    /\ collected = NotCollected
    /\ InitQuery
    /\ sent = NotSent

\* compact_persisting_batch(executor, sort_key, batch) on a batch without
\* record batches: assert!(!batch.data.data.is_empty()) panics at the first
\* poll, and nothing is returned
CompactPanics ==
    /\ compacted.pc = "idle"
    /\ persisting.data = <<>>
    /\ compacted' = [compacted EXCEPT !.pc = "panicked",
                                      !.sort_key = persisting.sort_key]
    /\ UNCHANGED <<persisting, collected>>
    /\ UNCHANGED bufferVars
    /\ UNCHANGED routerVars
    /\ UNCHANGED queryVars
    /\ UNCHANGED clientVars

\* compact_persisting_batch(executor, sort_key, batch) on a batch with
\* record batches is polled for the first time
CompactPersisting ==
    /\ compacted.pc = "idle"
    /\ persisting.data # <<>>
    /\ CompactPersistingBatch(persisting.sort_key, distinct_counts(persisting.data))

\* the caller has the CompactedStream and calls collect(stream), which is
\* not ready; a caller that does not collect stays where it is
CollectStream ==
    /\ compacted.pc = "returned"
    /\ collected.status = "none"
    /\ collected' = [status |-> "collecting", batches |-> <<>>]
    /\ UNCHANGED <<compacted, persisting>>
    /\ UNCHANGED bufferVars
    /\ UNCHANGED routerVars
    /\ UNCHANGED queryVars
    /\ UNCHANGED clientVars

\* the stream has ended: collect returns its record batches
CollectReady ==
    /\ collected.status = "collecting"
    /\ collected' = [status |-> "ok",
                     batches |-> collect(persisting.data, compacted.out.stream)]
    /\ UNCHANGED <<compacted, persisting>>
    /\ UNCHANGED bufferVars
    /\ UNCHANGED routerVars
    /\ UNCHANGED queryVars
    /\ UNCHANGED clientVars

NextPersisting ==
    \/ CompactPanics
    \/ CompactPersisting
    \/ CreatePhysicalPlanReady
    \/ ExecuteStreamReady
    \/ CollectStream
    \/ CollectReady

SpecPersisting == InitPersisting /\ [][NextPersisting]_vars

----------------------------------------------------------------------------
(* Duration literals: the specification. *)

\* a text to be parsed, or a Duration made from a number of nanoseconds
InitLiteral ==
    /\ InitBuffer
    /\ max_requests = 0
    /\ InitRouterState
    /\ InitCompact
    /\ \/ \E text \in Texts : literal = [NoLiteral EXCEPT !.source = <<text>>]
       \/ \E d \in Durations : literal = [NoLiteral EXCEPT !.duration = <<d>>]
    /\ selector = NoSelector
    /\ sent = NotSent

\* duration(i) on the source text
ParseSource ==
    /\ literal.source # NotParsed
    /\ literal.duration = NotParsed
    /\ literal.parsed = NotParsed
    /\ LET res == duration(literal.source[1])
       IN  literal' = IF res.ok THEN [literal EXCEPT !.duration = <<res.value>>]
                      ELSE [literal EXCEPT !.parsed = <<res>>]
    /\ UNCHANGED selector
    /\ UNCHANGED clientVars
    /\ UNCHANGED bufferVars
    /\ UNCHANGED routerVars
    /\ UNCHANGED compactVars

\* format!("{}", d)
DisplayDuration ==
    /\ literal.duration # NotParsed
    /\ literal.display = NotParsed
    /\ literal' = [literal EXCEPT !.display = <<fmt(literal.duration[1])>>]
    /\ UNCHANGED selector
    /\ UNCHANGED clientVars
    /\ UNCHANGED bufferVars
    /\ UNCHANGED routerVars
    /\ UNCHANGED compactVars

\* duration(i) on the displayed form
ParseDisplayed ==
    /\ literal.display # NotParsed
    /\ literal.parsed = NotParsed
    /\ literal' = [literal EXCEPT !.parsed = <<duration(literal.display[1])>>]
    /\ UNCHANGED selector
    /\ UNCHANGED clientVars
    /\ UNCHANGED bufferVars
    /\ UNCHANGED routerVars
    /\ UNCHANGED compactVars

NextLiteral == ParseSource \/ DisplayDuration \/ ParseDisplayed

SpecLiteral == InitLiteral /\ [][NextLiteral]_vars

----------------------------------------------------------------------------
(* Selector aggregates: the specification. *)

\* the four selectors are run over one input table
InitSelector ==
    /\ InitBuffer
    /\ max_requests = 0
    /\ InitRouterState
    /\ InitCompact
    /\ literal = NoLiteral
    /\ sent = NotSent
    /\ \E table \in InputTables \cup {F64Table, BoolTable} :
          selector = [NoSelector EXCEPT !.table = table]

\* update_batch of the partial accumulators with a record batch not yet fed
UpdateBatch(batch) ==
    /\ selector.out = <<>>
    /\ \A i \in 1..Len(selector.fed) : selector.fed[i] # batch
    /\ selector' =
          [selector EXCEPT
             !.fed = Append(@, batch),
             !.partial = [kind \in SelectorTypes |->
                            update_batch(kind, @[kind],
                                         Arrays(selector.table, batch)).state],
             !.dirty = TRUE]
    /\ UNCHANGED literal
    /\ UNCHANGED clientVars
    /\ UNCHANGED bufferVars
    /\ UNCHANGED routerVars
    /\ UNCHANGED compactVars

\* the partial accumulators' states are merged into the final accumulators
\* and new partial accumulators begin
MergeBatch ==
    /\ selector.out = <<>>
    /\ selector.dirty
    /\ selector' =
          [selector EXCEPT
             !.final = [kind \in SelectorTypes |->
                          merge_batch(kind, @[kind],
                                      StateArrays(selector.partial[kind])).state],
             !.partial = NewAccumulators,
             !.dirty = FALSE,
             !.merged = TRUE]
    /\ UNCHANGED literal
    /\ UNCHANGED clientVars
    /\ UNCHANGED bufferVars
    /\ UNCHANGED routerVars
    /\ UNCHANGED compactVars

\* evaluate, once every record batch is fed: of the accumulators updated
\* with the rows, or of the final accumulators when states were merged
Evaluate ==
    /\ selector.out = <<>>
    /\ Len(selector.fed) = Cardinality(InputBatches)
    /\ selector.merged => ~selector.dirty
    /\ selector' =
          [selector EXCEPT
             !.out = <<EvaluateAll(IF selector.merged THEN selector.final
                                   ELSE selector.partial)>>]
    /\ UNCHANGED literal
    /\ UNCHANGED clientVars
    /\ UNCHANGED bufferVars
    /\ UNCHANGED routerVars
    /\ UNCHANGED compactVars

NextSelector ==
    \/ \E batch \in InputBatches : UpdateBatch(batch)
    \/ MergeBatch
    \/ Evaluate

SpecSelector == InitSelector /\ [][NextSelector]_vars

----------------------------------------------------------------------------
(* Properties of the partition buffer, over SpecBuffer. *)

tag == buffer.state.tag
range == sequence_number_range(buffer)

\* the edges of the lifecycle diagram, and staying put
AllowedMove(a, b) ==
    \/ a = b
    \/ a = "Buffering" /\ b = "Snapshot"
    \/ a = "Snapshot" /\ b = "Persisting"

AnyWrite == \E batch \in Batches, n \in 0..MaxSeq : Write(batch, n)

\* C1: the buffer only ever moves Buffering -> Snapshot -> Persisting: no
\* step moves it backwards or from Buffering straight to Persisting, the
\* only call that leaves Buffering is snapshot() and the only call that
\* leaves Snapshot is into_persisting(); a write() step happens only in
\* Buffering and an into_persisting() step only in Snapshot, and neither
\* call is enabled in any other state.
C1_TransitionGraph ==
    /\ [](ENABLED AnyWrite => tag = "Buffering")
    /\ [](ENABLED IntoPersisting => tag = "Snapshot")
    /\ [][ /\ AllowedMove(tag, tag')
           /\ (tag = "Buffering" /\ tag' = "Snapshot" => bev'.op = "snapshot")
           /\ (tag = "Snapshot" /\ tag' = "Persisting" => bev'.op = "into_persisting")
           /\ (bev'.op = "write" => tag = "Buffering" /\ tag' = "Buffering")
           /\ (bev'.op = "into_persisting" => tag = "Snapshot" /\ tag' = "Persisting")
         ]_vars

\* the buffer went through the whole graph, having accepted a write
C1_Witness ==
    /\ tag = "Persisting"
    /\ written # {}
    /\ bev.op = "into_persisting"

\* C2: the range is empty exactly while no write has succeeded; afterwards
\* min <= max, min is the smallest and max the largest sequence number
\* written; max never decreases; a successful write whose n equals the
\* current max leaves the range as it was.
C2_SequenceRange ==
    /\ [](IF written = {}
          THEN ~range.some /\ inclusive_min(range) = -1 /\ inclusive_max(range) = -1
          ELSE /\ range.some
               /\ range.min <= range.max
               /\ range.min = SetMin(written)
               /\ range.max = SetMax(written))
    /\ [][ /\ inclusive_max(range') >= inclusive_max(range)
           /\ (bev'.op = "write" /\ bev'.ret = "Ok" /\ range.some
                 /\ bev'.n = range.max => range' = range)
         ]_vars

\* two writes with different sequence numbers succeeded, then one repeating
\* the current max
C2_Witness ==
    /\ tag = "Buffering"
    /\ bev.op = "write" /\ bev.ret = "Ok"
    /\ Cardinality(written) >= 2
    /\ range.min < range.max
    /\ bev.n = range.max
    /\ Len(buffer.state.mb.rows) = MaxRows

\* C8: snapshot() on a buffer with zero rows returns Unchanged with the
\* machine exactly as it was; on a buffer with rows it returns Ok with a
\* Snapshot state that carries the range the buffer had before the call.
\* Either way the caller holds a live state machine afterwards.
C8_Snapshot ==
    [][ bev'.op = "snapshot" =>
          /\ life' = "live"
          /\ IF Len(buffer.state.mb.rows) = 0
             THEN bev'.ret = "Unchanged" /\ buffer' = buffer
             ELSE /\ bev'.ret = "Ok"
                  /\ tag' = "Snapshot"
                  /\ range' = range
                  /\ Len(buffer'.state.batches) >= 1
      ]_vars

\* a snapshot of a buffer that saw two different sequence numbers
C8_Witness ==
    /\ bev.op = "snapshot" /\ bev.ret = "Ok"
    /\ tag = "Snapshot"
    /\ range.some /\ range.min < range.max

\* C9: in Snapshot and in Persisting, get_query_data changes nothing of the
\* buffer, and the second of two calls in a row returns the list the first
\* returned: the same references (allocation ids), contents and order.
C9_IdempotentReads ==
    [][ (bev'.op = "get_query_data" /\ tag \in {"Snapshot", "Persisting"}) =>
          /\ buffer' = buffer
          /\ life' = life
          /\ written' = written
          /\ Len(bev'.data) >= 1
          /\ (bev'.k = 2 => bev'.data = bev.data)
      ]_vars

\* two reads in a row of a Persisting buffer holding two rows
C9_Witness ==
    /\ tag = "Persisting"
    /\ bev.op = "get_query_data" /\ bev.k = 2
    /\ Len(bev.data) = 1
    /\ Len(bev.data[1].rows) = 2

\* C10: into_persisting() always succeeds on a Snapshot and keeps the batch
\* list and the range; what Persisting holds, returns from get_query_data
\* and hands out with into_data() is, reference by reference, the list
\* get_query_data returned in Snapshot, with the range seen then.
C10_IntoPersisting ==
    /\ []((tag = "Snapshot" /\ life = "live") => ENABLED IntoPersisting)
    /\ []((tag = "Persisting" /\ snap.seen) =>
            /\ buffer.state.batches = snap.data
            /\ range = snap.range
            /\ (bev.op \in {"into_data", "get_query_data"} => bev.data = snap.data))
    /\ [][ bev'.op = "into_persisting" =>
             /\ bev'.ret = "Ok"
             /\ life' = "live"
             /\ buffer'.state.batches = buffer.state.batches
             /\ range' = range
         ]_vars

\* into_data() of a buffer that was read while it was a Snapshot
C10_Witness ==
    /\ bev.op = "into_data"
    /\ life = "consumed"
    /\ snap.seen
    /\ Len(bev.data) = 1
    /\ Len(bev.data[1].rows) = 2
    /\ range.min < range.max

\* C11: every write() call made with a sequence number below the current
\* maximum of the range panics; none returns Ok, and none moves the lower
\* bound of the range down.
C11_StaleWritePanics ==
    [][ (bev'.op = "write" /\ range.some /\ bev'.n < range.max) =>
          /\ bev'.ret = "Panic"
          /\ life' = "panicked"
          /\ inclusive_min(range') >= inclusive_min(range)
      ]_vars

----------------------------------------------------------------------------
(* Properties of the router, over SpecRouter and SpecRouterFair. *)

\* the requests being serviced, and those holding a permit
InFlight == {r \in Reqs : req[r].pc \in {"reading", "dml"}}
Holding == {r \in Reqs : req[r].permit}

\* this step is the call of route() for r
Arrived(r) == req[r].pc = "idle" /\ req'[r].pc # "idle"

\* C3: never more than max_requests requests are in flight; a route() call
\* made while max_requests requests hold permits returns RequestLimit
\* (status 503) in the step of the call, which adds 1 to http_request_limit_rejected; an
\* admitted call and every other step leave the counter alone, so the
\* counter is the number of rejected requests.
C3_RequestLimit ==
    /\ [](Cardinality(InFlight) <= max_requests)
    /\ [](rejected = Cardinality({r \in Reqs : result[r] = "RequestLimit"}))
    /\ [][ /\ \A r \in Reqs : Arrived(r) =>
                IF Cardinality(Holding) >= max_requests
                THEN /\ result'[r] = "RequestLimit"
                     /\ as_status_code(result'[r], "none") = 503
                     /\ req'[r].pc = "done"
                     /\ rejected' = rejected + 1
                ELSE /\ result'[r] # "RequestLimit"
                     /\ rejected' = rejected
           /\ ((\A r \in Reqs : ~Arrived(r)) => rejected' = rejected)
         ]_vars

\* with one permit: a request is being serviced and the next was rejected
C3_Witness ==
    /\ max_requests = 1
    /\ req[1].pc = "dml"
    /\ result[2] = "RequestLimit"
    /\ rejected = 1

\* the part of C4 that holds of every step: a request holds its permit
\* exactly while it is in flight; the permit goes back in the step in which
\* route() returns or the future is dropped, whatever the outcome; so the
\* permits left are max_requests less the requests in flight, and a call
\* made while fewer than max_requests are in flight is admitted
PermitHeldInFlight ==
    /\ [](\A r \in Reqs : req[r].permit <=> r \in InFlight)
    /\ [](permits = max_requests - Cardinality(InFlight))
    /\ [][ \A r \in Reqs :
             /\ (req[r].permit /\ req'[r].pc = "done" =>
                    ~req'[r].permit /\ permits' = permits + 1)
             /\ (Arrived(r) /\ Cardinality(InFlight) < max_requests =>
                    result'[r] # "RequestLimit")
         ]_vars

\* C4 as stated: the permit is held while the request is in flight and
\* goes back on every return and on a drop, and every admitted request
\* gives its permit back: at any time there is a later time at which it
\* holds none.
C4_PermitAlwaysReleased ==
    /\ PermitHeldInFlight
    /\ \A r \in Reqs : []<>(~req[r].permit)

\* C4 amended: the permit is held while the request is in flight and goes
\* back on every return and on a drop; a request whose awaited futures all
\* become ready, or whose future is dropped, gives its permit back, while a
\* request that waits for ever for its body or for the DML handler holds
\* its permit for as long as it waits.
C4_PermitReleased ==
    /\ PermitHeldInFlight
    /\ [](\A r \in Reqs : req[r].stalled => req[r].permit /\ r \in InFlight)
    /\ [][ \A r \in Reqs :
             (req[r].stalled /\ req'[r] # req[r]) =>
                (req'[r] = Gone /\ result'[r] = "Dropped") ]_vars
    /\ \A r \in Reqs : []<>(~req[r].permit \/ req[r].stalled)

\* with one permit: the first request failed with ClientHangup and gave its
\* permit back, the second, which came after it, was admitted and now waits
\* for a body that never comes, holding the permit
C4_Witness ==
    /\ max_requests = 1
    /\ result[1] = "ClientHangup"
    /\ req[2].pc = "reading" /\ req[2].permit /\ req[2].stalled
    /\ permits = 0

\* C5: a rejected request is finished in the step of its call, in which
\* nothing is decoded and the DML handler is not called; from then on no
\* step is a step of that request: no chunk is taken from its body, its
\* body never ends for the handler, the DML handler never sees it.
C5_RejectedUntouched ==
    /\ [](\A r \in Reqs : result[r] = "RequestLimit" =>
            req[r] = Gone /\ dml_calls[r] = 0)
    /\ [][ \A r \in Reqs :
             /\ (Arrived(r) /\ Cardinality(Holding) >= max_requests) =>
                   /\ result'[r] = "RequestLimit"
                   /\ req'[r] = Gone
                   /\ dml_calls' = dml_calls
                   /\ decoded_over' = decoded_over
                   /\ metrics' = metrics
             /\ result[r] = "RequestLimit" =>
                   /\ req'[r] = req[r]
                   /\ result'[r] = result[r]
                   /\ dml_calls'[r] = dml_calls[r]
         ]_vars

\* the second request was rejected while the first was being read
C5_Witness ==
    /\ result[2] = "RequestLimit"
    /\ req[1].pc = "reading" /\ req[1].body > 0
    /\ req[2] = Gone
    /\ dml_calls[2] = 0
    /\ rejected = 1

\* C6: the gzip stage never holds more than max_request_bytes + 1 decoded
\* bytes; a well-formed gzip body that inflates to more than
\* max_request_bytes bytes ends the request with RequestSizeExceeded and no
\* DML call, so no body reaches the handler; one that inflates to
\* max_request_bytes bytes or fewer is not refused by read_body, and the
\* handler gets all of its bytes.
C6_GzipBomb ==
    /\ [](decoded_over <= max_request_bytes + 1)
    /\ [][ \A r \in Reqs :
             (req[r].pc = "reading" /\ req[r].ungzip /\ req'[r].pc # "reading") =>
             \A gz \in GzStreams :
                \/ gz.corrupt
                \/ IF gz.len > max_request_bytes
                   THEN /\ result'[r] = "RequestSizeExceeded"
                        /\ req'[r] = Gone
                        /\ dml_calls' = dml_calls
                        /\ metrics' = metrics
                   ELSE /\ result'[r] \notin {"RequestSizeExceeded", "InvalidGzip"}
                        /\ (EndOfBody(r, gz, AcceptedBody(req[r].handler)) =>
                               req'[r].pc = "dml" /\ req'[r].body = gz.len)
                \/ \A content \in Contents : ~EndOfBody(r, gz, content)
         ]_vars

\* the only request so far carried a gzip body that was cut off at
\* max_request_bytes + 1 decoded bytes and refused
C6_Witness ==
    /\ decoded_over = max_request_bytes + 1
    /\ result[1] = "RequestSizeExceeded"
    /\ dml_calls[1] = 0
    /\ \A r \in Reqs \ {1} : req[r].pc = "idle"

\* C7: the body held in memory is never longer than max_request_bytes; a
\* chunk that would make it longer ends the request with
\* RequestSizeExceeded and is not appended, any other chunk is appended and
\* reading goes on; a transport error ends the request with ClientHangup;
\* the end of an uncompressed body within the limit is not refused for its
\* size.
C7_BodyLimit ==
    /\ [](\A r \in Reqs : req[r].body <= max_request_bytes)
    /\ [][ \A r \in Reqs : (req[r].pc = "reading" /\ req'[r] # req[r]) =>
             /\ \A chunk \in 0..MaxChunk : ReadChunk(r, chunk) =>
                   IF req[r].body + chunk > max_request_bytes
                   THEN result'[r] = "RequestSizeExceeded" /\ req'[r] = Gone
                   ELSE /\ req'[r].pc = "reading"
                        /\ req'[r].body = req[r].body + chunk
                        /\ result'[r] = "none"
             /\ (ReadError(r) => result'[r] = "ClientHangup" /\ req'[r] = Gone)
             /\ \A content \in Contents :
                   (~req[r].ungzip
                      /\ EndOfBody(r, [len |-> 0, corrupt |-> FALSE], content)) =>
                      /\ result'[r] # "RequestSizeExceeded"
                      /\ (content = AcceptedBody(req[r].handler) =>
                             req'[r].pc = "dml" /\ req'[r].body = req[r].body)
         ]_vars

\* an uncompressed body of exactly max_request_bytes bytes is with the DML
\* handler, and another request was refused while its body was streamed
C7_Witness ==
    /\ req[1].pc = "dml"
    /\ req[1].body = max_request_bytes
    /\ result[2] = "RequestSizeExceeded"
    /\ decoded_over = 0

----------------------------------------------------------------------------
(* Properties of the handlers, over SpecHandler. *)

\* the errors of the stages before the DML call
EarlyErrors ==
    {"InvalidOrgBucket", "InvalidContentEncoding", "RequestSizeExceeded",
     "ClientHangup", "InvalidGzip", "NonUtf8Body", "ParseLineProtocol",
     "ParseHttpDelete", "ParseDelete", "NoHandler", "RequestLimit"}

\* C12: the DML handler is called at most once per request, in the step in
\* which the body of an admitted, routed request ended and parsed; a request
\* that failed with an error of an earlier stage made no call; a request at
\* the DML stage, and one the DML handler answered, made exactly one call,
\* for the operation of its route and with the namespace org "_" bucket of
\* its query string.
C12_DmlCalledOnce ==
    /\ [](\A r \in Reqs :
            /\ dml_calls[r] <= 1
            /\ (dml_calls[r] = 0 <=> dml_args[r] = NoCall)
            /\ (result[r] \in EarlyErrors => dml_calls[r] = 0)
            /\ (req[r].pc = "dml" \/ result[r] = "DmlHandler" => dml_calls[r] = 1)
            /\ (req[r].pc = "dml" =>
                   /\ dml_args[r].op = req[r].handler
                   /\ dml_args[r].namespace = req[r].namespace))
    /\ [][ \A r \in Reqs :
             /\ (dml_calls'[r] # dml_calls[r] \/ dml_args'[r] # dml_args[r]) =>
                   /\ req[r].pc = "reading" /\ req[r].permit
                   /\ req'[r].pc = "dml"
                   /\ result[r] = "none" /\ result'[r] = "none"
                   /\ dml_calls[r] = 0
             /\ (Arrived(r) /\ req'[r].pc = "reading") =>
                   \A q \in AllRequests : Arrive(r, q) =>
                       /\ q.method = "POST"
                       /\ req'[r].handler =
                             (IF q.path = "/api/v2/write" THEN "write" ELSE "delete")
                       /\ req'[r].namespace =
                             q.query.org[1] \o "_" \o q.query.bucket[1]
         ]_vars

\* the write of ?org=bananas&bucket=test is with the DML handler, once
C12_Witness ==
    /\ req[1].pc = "dml"
    /\ dml_calls[1] = 1
    /\ dml_args[1].op = "write"
    /\ dml_args[1].namespace = "bananas_test"

\* this step is the end of r's body, with read_body returning the body
BodyRead(r) ==
    /\ req[r].pc = "reading" /\ req'[r].pc # "reading"
    /\ result'[r] \notin {"Dropped", "ClientHangup", "RequestSizeExceeded",
                          "InvalidGzip"}

\* the gzip streams the body of r may have been in a step in which
\* read_body returned it: none for a body read as it is; else a well-formed
\* one within the limit, of the length of the body the DML stage holds
StreamsRead(r) ==
    {gz \in GzStreams :
        /\ ~gz.corrupt
        /\ gz.len <= max_request_bytes
        /\ ~req[r].ungzip => gz.len = 0
        /\ (req[r].ungzip /\ req'[r].pc = "dml") => gz.len = req'[r].body}

\* C13: a write request with a valid org and bucket whose body, once read,
\* holds no line succeeds: route() returns Ok with WriteSummary::default(),
\* which the client gets as 204 with the token of the default summary; the
\* DML handler is not called.
C13_EmptyWriteSucceeds ==
    [][ \A r \in Reqs :
          (BodyRead(r) /\ req[r].handler = "write") =>
          \A gz \in GzStreams :
             EndOfBody(r, gz, Body("blank", <<>>)) =>
                /\ result'[r] = "Ok"
                /\ detail'[r] = WriteSummaryDefault
                /\ response(result'[r], detail'[r]) =
                      [status |-> 204, token |-> <<to_token(WriteSummaryDefault)>>]
                /\ req'[r] = Gone
                /\ dml_calls'[r] = 0
                /\ dml_args'[r] = NoCall
      ]_vars

\* a write of an empty body was answered Ok without a DML call
C13_Witness ==
    /\ result[1] = "Ok"
    /\ detail[1] = WriteSummaryDefault
    /\ dml_calls[1] = 0
    /\ dml_args[1] = NoCall

\* this step is route() answering r with Ok
AnsweredOk(r) == result[r] = "none" /\ result'[r] = "Ok"

\* the client of r is sent 204 with the token of the summary route() got
NoContentWithToken(r) ==
    /\ detail'[r] \in WriteSummaries
    /\ response(result'[r], detail'[r]) =
          [status |-> 204, token |-> <<to_token(detail'[r])>>]

\* C14 as claimed: every request answered Ok is sent 204 with the token,
\* and in the step of the answer its metrics are recorded: for a write the
\* lines, fields and tables counters each grow and the body bytes counter
\* grows by the length of the decompressed body; for a delete the delete
\* body bytes counter grows by that length.
C14_EverySuccessRecordsMetrics ==
    [][ \A r \in Reqs : AnsweredOk(r) =>
          /\ NoContentWithToken(r)
          /\ IF req[r].handler = "write"
             THEN /\ metrics'.write_lines > metrics.write_lines
                  /\ metrics'.write_fields > metrics.write_fields
                  /\ metrics'.write_tables > metrics.write_tables
                  /\ req[r].pc = "dml" =>
                        metrics'.write_body_bytes =
                           metrics.write_body_bytes + req[r].body
                  /\ req[r].pc = "reading" =>
                        \A gz \in GzStreams, content \in AllContents :
                           EndOfBody(r, gz, content) =>
                              metrics'.write_body_bytes =
                                 metrics.write_body_bytes +
                                 (IF req[r].ungzip THEN gz.len ELSE req[r].body)
             ELSE metrics'.delete_body_bytes =
                     metrics.delete_body_bytes + req[r].body
      ]_vars

\* C14, amended: every request answered Ok is sent 204 with the token.  One
\* answered after its DML call has its metrics recorded in the step of the
\* answer: for a write the lines, fields and tables counters each grow and
\* the body bytes counter grows by the length of the decompressed body; for
\* a delete the delete body bytes counter grows by that length.  The only
\* other request answered Ok is a write whose body holds no line: it made
\* no DML call, carries the default summary and records no metric.
C14_SuccessAnswer ==
    [][ \A r \in Reqs : AnsweredOk(r) =>
          /\ NoContentWithToken(r)
          /\ IF req[r].pc = "dml"
             THEN IF req[r].handler = "write"
                  THEN /\ metrics'.write_lines > metrics.write_lines
                       /\ metrics'.write_fields > metrics.write_fields
                       /\ metrics'.write_tables > metrics.write_tables
                       /\ metrics'.write_body_bytes =
                             metrics.write_body_bytes + req[r].body
                  ELSE metrics'.delete_body_bytes =
                          metrics.delete_body_bytes + req[r].body
             ELSE /\ req[r].handler = "write"
                  /\ \E gz \in GzStreams : EndOfBody(r, gz, Body("blank", <<>>))
                  /\ detail'[r] = WriteSummaryDefault
                  /\ dml_calls'[r] = 0
                  /\ metrics' = metrics
      ]_vars

\* a write of one line in a body of two bytes was answered Ok with the
\* summary the DML handler gave
C14_Witness ==
    /\ result[1] = "Ok"
    /\ detail[1] = "sequenced"
    /\ dml_calls[1] = 1
    /\ dml_args[1].op = "write"
    /\ metrics.write_lines = 1
    /\ metrics.write_body_bytes = 2

\* this step is the call of route() for r, and r is admitted
Admitted(r) == Arrived(r) /\ Cardinality(Holding) < max_requests

\* C15: an admitted request is routed by its method and path alone.  POST
\* /api/v2/write is handled by the write handler and POST /api/v2/delete by
\* the delete handler, whatever the query string and the headers: it is not
\* answered NoHandler, and when its body is read and its DML call made they
\* are the write handler's, or the delete handler's.  Every other method
\* and path is answered NoHandler (404) in the step of the call; a request
\* answered NoHandler has had no byte of its body read and no DML call
\* made, and never will.
C15_Routing ==
    /\ [](\A r \in Reqs :
            /\ (result[r] = "NoHandler" =>
                   /\ req[r] = Gone
                   /\ dml_calls[r] = 0
                   /\ dml_args[r] = NoCall)
            /\ (req[r].pc = "dml" => dml_args[r].op = req[r].handler))
    /\ [][ \A r \in Reqs :
             /\ Admitted(r) =>
                   \A q \in AllRequests :
                      \/ IF q.method = "POST" /\ q.path = "/api/v2/write"
                         THEN /\ result'[r] # "NoHandler"
                              /\ req'[r].pc = "reading" => req'[r].handler = "write"
                         ELSE IF q.method = "POST" /\ q.path = "/api/v2/delete"
                         THEN /\ result'[r] # "NoHandler"
                              /\ req'[r].pc = "reading" => req'[r].handler = "delete"
                         ELSE /\ result'[r] = "NoHandler"
                              /\ response(result'[r], detail'[r]).status = 404
                              /\ req'[r] = Gone
                              /\ dml_calls' = dml_calls
                              /\ metrics' = metrics
                      \/ ~Arrive(r, q)
             /\ req[r].pc \in {"reading", "dml"} =>
                   req'[r].handler \in {req[r].handler, "none"}
         ]_vars

\* a GET of /api/v2/write was answered NoHandler
C15_Witness ==
    /\ result[1] = "NoHandler"
    /\ max_requests = 1 /\ permits = 1
    /\ req[1] = Gone
    /\ dml_calls[1] = 0

\* C16: of an admitted request whose route and query string were accepted,
\* the body is read as it is when there is no Content-Encoding header, and
\* read to be decompressed when the header is exactly "gzip"; a header that
\* is not text is answered NonUtf8ContentHeader, and any other value
\* InvalidContentEncoding (415) carrying that value, both in the step of
\* the call: no chunk of the body has been read, and none will be.
C16_ContentEncoding ==
    /\ [](\A r \in Reqs :
            result[r] \in {"InvalidContentEncoding", "NonUtf8ContentHeader"} =>
               req[r] = Gone /\ dml_calls[r] = 0)
    /\ [][ \A r \in Reqs :
             /\ (Admitted(r) /\ result'[r] \notin {"NoHandler", "InvalidOrgBucket"}) =>
                   \A q \in AllRequests :
                      \/ IF q.encoding = "missing"
                         THEN /\ result'[r] = "none"
                              /\ req'[r].pc = "reading"
                              /\ ~req'[r].ungzip
                              /\ req'[r].body = 0
                         ELSE IF q.encoding = "gzip"
                         THEN /\ result'[r] = "none"
                              /\ req'[r].pc = "reading"
                              /\ req'[r].ungzip
                              /\ req'[r].body = 0
                         ELSE IF q.encoding = "non_utf8"
                         THEN /\ result'[r] = "NonUtf8ContentHeader"
                              /\ req'[r] = Gone
                         ELSE /\ result'[r] = "InvalidContentEncoding"
                              /\ detail'[r] = q.encoding
                              /\ response(result'[r], detail'[r]).status = 415
                              /\ req'[r] = Gone
                      \/ ~Arrive(r, q)
             \* the body that reaches the DML stage: as read, or decompressed
             /\ (req[r].pc = "reading" /\ req'[r].pc = "dml") =>
                   IF req[r].ungzip
                   THEN \E gz \in StreamsRead(r), content \in AllContents :
                           /\ req'[r].body = gz.len
                           /\ EndOfBody(r, gz, content)
                   ELSE req'[r].body = req[r].body
         ]_vars

\* a write with Content-Encoding: GZIP was refused with that value
C16_Witness ==
    /\ result[1] = "InvalidContentEncoding"
    /\ detail[1] = "GZIP"
    /\ req[1] = Gone
    /\ dml_calls[1] = 0

\* every value of Error: its kind and, for DmlHandler, the DmlError in it
ErrorValues ==
    [error : {"NoHandler", "InvalidOrgBucket", "ClientHangup", "InvalidGzip",
              "NonUtf8ContentHeader", "NonUtf8Body", "ParseLineProtocol",
              "ParseDelete", "ParseHttpDelete", "RequestSizeExceeded",
              "InvalidContentEncoding", "RequestLimit"},
     dml : {"none"}]
    \cup [error : {"DmlHandler"}, dml : DmlErrors]

\* the error route() returned to r
ErrorOf(r) ==
    [error |-> result[r],
     dml |-> IF result[r] = "DmlHandler" THEN detail[r] ELSE "none"]

\* C17: as_status_code gives every Error its status: NoHandler 404; the
\* request errors InvalidOrgBucket, ClientHangup, InvalidGzip,
\* NonUtf8ContentHeader, NonUtf8Body, ParseLineProtocol, ParseDelete and
\* ParseHttpDelete 400; RequestSizeExceeded 413; InvalidContentEncoding 415;
\* RequestLimit 503; DmlHandler by the DmlError in it: DatabaseNotFound 404,
\* ServiceLimit and Conflict 400, the others 500.  No error is given a 2xx
\* status, and every error route() returns is sent with the status of this
\* table.
C17_StatusCodes ==
    /\ \A e \in ErrorValues :
          LET code == as_status_code(e.error, e.dml)
          IN  /\ code = (CASE e.error = "NoHandler" -> 404
                           [] e.error \in {"InvalidOrgBucket", "ClientHangup",
                                           "InvalidGzip", "NonUtf8ContentHeader",
                                           "NonUtf8Body", "ParseLineProtocol",
                                           "ParseDelete", "ParseHttpDelete"} -> 400
                           [] e.error = "RequestSizeExceeded" -> 413
                           [] e.error = "InvalidContentEncoding" -> 415
                           [] e.error = "RequestLimit" -> 503
                           [] e.error = "DmlHandler" ->
                                (CASE e.dml = "DatabaseNotFound" -> 404
                                   [] e.dml \in {"ServiceLimit", "Conflict"} -> 400
                                   [] e.dml \in {"NamespaceLookup",
                                                 "UnexpectedCatalogError",
                                                 "Internal", "WriteBuffer",
                                                 "NamespaceCreation",
                                                 "BatchWrite"} -> 500))
              /\ code \notin 200..299
    /\ \A r \in Reqs :
          result[r] \notin {"none", "Ok", "Dropped"} =>
             /\ ErrorOf(r) \in ErrorValues
             /\ response(result[r], detail[r]) =
                   [status |-> as_status_code(ErrorOf(r).error, ErrorOf(r).dml),
                    token |-> <<>>]
             /\ response(result[r], detail[r]).status \in {400, 404, 413, 415, 500, 503}

\* the DML handler did not find the database of a write: 404
C17_Witness ==
    /\ result[1] = "DmlHandler"
    /\ detail[1] = "DatabaseNotFound"
    /\ response(result[1], detail[1]).status = 404
    /\ dml_calls[1] = 1

\* the power of ten of a precision's unit in nanoseconds
UnitExponent(precision) ==
    CASE precision = "s" -> 9
      [] precision = "ms" -> 6
      [] precision = "us" -> 3
      [] precision = "ns" -> 0

\* m * 10^e is above i64::MAX = 9223372036854775807; m has at most four
\* digits, so a value with e < 15 is below 10^19 / 10, and one with e >= 15
\* is above i64::MAX exactly when m * 10^(e - 15) is above 9223
AboveI64Max(m, e) == e >= 15 /\ m * Pow10(e - 15) > 9223

\* the rows a write of `lines` in `precision` hands to the DML handler
Nanoseconds(lines, precision) ==
    [i \in 1..Len(lines) |->
       [table |-> lines[i].table,
        time |-> IF lines[i].ts = <<>> THEN DefaultTime
                 ELSE [default |-> FALSE, m |-> lines[i].ts[1].m,
                       e |-> lines[i].ts[1].e + UnitExponent(precision)],
        tags |-> tag_columns(lines[i]),
        fields |-> field_columns(lines[i])]]

\* one second after the epoch, in each precision
OneSecond == {<<"s", 0>>, <<"ms", 3>>, <<"us", 6>>, <<"ns", 9>>}

\* C18: the write handler reads the timestamps of the lines in the unit of
\* the precision parameter, nanoseconds when there is none.  When the body
\* of a write has been read and parses, either some timestamp times its
\* unit is above i64::MAX, and the request fails with ParseLineProtocol
\* without a DML call, or the DML handler is called with the rows of the
\* lines, each timestamp in nanoseconds (s: * 10^9, ms: * 10^6, us: * 10^3,
\* ns: * 1); so one second written in any of the four precisions reaches
\* the DML handler as 10^9 ns, and no timestamp the DML handler gets is
\* above i64::MAX.
C18_PrecisionScaling ==
    /\ [](\A r \in Reqs : dml_args[r].op = "write" =>
            \A i \in 1..Len(dml_args[r].input) :
            ~AboveI64Max(dml_args[r].input[i].time.m, dml_args[r].input[i].time.e))
    /\ [][ \A r \in Reqs :
             /\ (Arrived(r) /\ req'[r].pc = "reading") =>
                   \A q \in AllRequests : Arrive(r, q) =>
                      req'[r].precision = (IF q.query.precision = <<>> THEN "ns"
                                           ELSE q.query.precision[1])
             /\ (BodyRead(r) /\ req[r].handler = "write") =>
                   \A content \in AllContents :
                      (/\ content.kind = "parses"
                       /\ \E gz \in StreamsRead(r) : EndOfBody(r, gz, content)) =>
                         /\ IF \E i \in 1..Len(content.lines) :
                                  /\ content.lines[i].ts # <<>>
                                  /\ AboveI64Max(content.lines[i].ts[1].m,
                                                 content.lines[i].ts[1].e
                                                   + UnitExponent(req[r].precision))
                            THEN /\ result'[r] = "ParseLineProtocol"
                                 /\ req'[r] = Gone
                                 /\ dml_calls'[r] = 0
                                 /\ dml_args'[r] = NoCall
                            ELSE /\ req'[r].pc = "dml"
                                 /\ dml_calls'[r] = 1
                                 /\ dml_args'[r].input =
                                       Nanoseconds(content.lines, req[r].precision)
                         /\ \A p \in OneSecond :
                               (/\ req[r].precision = p[1]
                                /\ Len(content.lines) = 1
                                /\ content.lines[1].ts = <<[m |-> 1, e |-> p[2]]>>) =>
                                  dml_args'[r].input[1].time =
                                     [default |-> FALSE, m |-> 1, e |-> 9]
         ]_vars

\* a write with precision=ms of the line with timestamp 9223 * 10^9 ms,
\* the last of the model's that fits, is with the DML handler as 9223 * 10^15 ns
C18_Witness ==
    /\ req[1].pc = "dml"
    /\ req[1].precision = "ms"
    /\ dml_args[1].op = "write"
    /\ dml_args[1].input =
          <<[table |-> "platanos", time |-> [default |-> FALSE, m |-> 9223, e |-> 15],
             tags |-> <<>>, fields |-> [k \in {"val"} |-> [type |-> "i", value |-> 42]]]>>

----------------------------------------------------------------------------
(* Properties of the compaction, over SpecCompact. *)

\* C19: compact_persisting_batch called with Some(sk) returns the two keys
\* of adjust_sort_key_columns(sk, primary key of the data); called with None
\* or with an empty sort key it returns compute_sort_key's key as
\* data_sort_key and, in Some, as catalog_sort_key_update; the stream it
\* returns is the data compacted on data_sort_key.
C19_SortKeyChoice ==
    compacted.pc = "returned" =>
       LET out == compacted.out
           adjusted == adjust_sort_key_columns(compacted.sort_key[1],
                                               primary_key(compacted.data))
           computed == compute_sort_key(compacted.data)
       IN  /\ compacted.sort_key # <<>> =>
                 /\ out.data_sort_key = adjusted.data_sort_key
                 /\ out.catalog_sort_key_update = adjusted.catalog_update
           /\ (compacted.sort_key = <<>> \/ compacted.sort_key = << <<>> >>) =>
                 /\ out.data_sort_key = computed
                 /\ out.catalog_sort_key_update = <<computed>>
           /\ out.stream = compact(compacted.data, out.data_sort_key)

\* the position of column c in key
Pos(key, c) == CHOOSE i \in 1..Len(key) : key[i] = c

\* C20: for a call with Some(existing), data_sort_key holds each column of
\* the data's primary key once and no other; the columns it shares with
\* existing come first, in the order existing has them, then the primary
\* key's columns that existing lacks, in primary key order, and time is
\* last; catalog_sort_key_update is Some exactly when existing lacks a
\* column of the primary key.  With primary key [tag1, tag3, time]:
\* existing [tag3, time] gives [tag3, tag1, time] and Some of it, existing
\* [tag3, tag1, tag4, time] gives [tag3, tag1, time] and None.
C20_AdjustSortKey ==
    (compacted.pc = "returned" /\ compacted.sort_key # <<>>) =>
       LET existing == compacted.sort_key[1]
           present_pk == primary_key(compacted.data)
           key == compacted.out.data_sort_key
           update == compacted.out.catalog_sort_key_update
           shared == (Cols(existing) \cap Cols(present_pk)) \ {"time"}
           added == (Cols(present_pk) \ Cols(existing)) \ {"time"}
       IN  /\ Cols(key) = Cols(present_pk)
           /\ Len(key) = Cardinality(Cols(present_pk))
           /\ key[Len(key)] = "time"
           /\ \A c, d \in shared :
                 Pos(existing, c) < Pos(existing, d) => Pos(key, c) < Pos(key, d)
           /\ \A c, d \in added :
                 Pos(present_pk, c) < Pos(present_pk, d) => Pos(key, c) < Pos(key, d)
           /\ \A c \in shared, d \in added : Pos(key, c) < Pos(key, d)
           /\ (update # <<>>) <=> (\E c \in Cols(present_pk) : c \notin Cols(existing))
           /\ present_pk = <<"tag1", "tag3", "time">> =>
                 /\ existing = <<"tag3", "time">> =>
                       /\ key = <<"tag3", "tag1", "time">>
                       /\ update = << <<"tag3", "tag1", "time">> >>
                 /\ existing = <<"tag3", "tag1", "tag4", "time">> =>
                       /\ key = <<"tag3", "tag1", "time">>
                       /\ update = <<>>

\* the catalog key [tag3, time] met data with the tags tag1 and tag3: tag1
\* went in before time, and the catalog is to be updated
C20_Witness ==
    /\ compacted.pc = "returned"
    /\ compacted.sort_key = << <<"tag3", "time">> >>
    /\ DOMAIN compacted.data = {"tag1", "tag3"}
    /\ compacted.out.data_sort_key = <<"tag3", "tag1", "time">>
    /\ compacted.out.catalog_sort_key_update # <<>>

\* the catalog sort key a call was given (none is the empty key)
ExistingCatalogKey ==
    IF compacted.sort_key = <<>> THEN <<>> ELSE compacted.sort_key[1]

\* the catalog sort key once catalog_sort_key_update is applied
ResultingCatalogKey ==
    IF compacted.out.catalog_sort_key_update # <<>>
    THEN compacted.out.catalog_sort_key_update[1]
    ELSE ExistingCatalogKey

\* C21: a compaction never narrows the catalog sort key: every column of
\* the catalog sort key the call was given is in the catalog sort key that
\* results from catalog_sort_key_update (the given key when the update is
\* None), and every column of data_sort_key is in that resulting key, also
\* when the data lacks a column of the given key and has one it lacks.
C21_NoNarrowing ==
    compacted.pc = "returned" =>
       /\ Cols(ExistingCatalogKey) \subseteq Cols(ResultingCatalogKey)
       /\ Cols(compacted.out.data_sort_key) \subseteq Cols(ResultingCatalogKey)

\* the catalog key [tag3, tag4, time] met data with the tags tag1 and tag3:
\* the data's key has no tag4, the updated catalog key keeps it and gains
\* tag1
C21_Witness ==
    /\ compacted.pc = "returned"
    /\ compacted.sort_key = << <<"tag3", "tag4", "time">> >>
    /\ DOMAIN compacted.data = {"tag1", "tag3"}
    /\ compacted.out.data_sort_key = <<"tag3", "tag1", "time">>
    /\ compacted.out.catalog_sort_key_update = << <<"tag3", "tag4", "tag1", "time">> >>

\* C22: the key compute_sort_key gives (seen in a call with None) holds
\* each tag column of the data and time once and nothing else; a tag with
\* fewer distinct values stands before one with more, of two tags with
\* equally many the one whose name is first in lexicographic order stands
\* first, and time is last; computing it again gives the same key; for
\* data without tags it is [time].
C22_ComputeSortKey ==
    (compacted.pc = "returned" /\ compacted.sort_key = <<>>) =>
       LET data == compacted.data
           key == compacted.out.data_sort_key
           tags == DOMAIN data
       IN  /\ Cols(key) = tags \cup {"time"}
           /\ Len(key) = Cardinality(tags) + 1
           /\ key[Len(key)] = "time"
           /\ \A c, d \in tags :
                 data[c] < data[d] => Pos(key, c) < Pos(key, d)
           /\ \A c, d \in tags :
                 (data[c] = data[d] /\ TagIndex(c) < TagIndex(d))
                    => Pos(key, c) < Pos(key, d)
           /\ compute_sort_key(data) = key
           /\ compacted.out.catalog_sort_key_update = <<key>>
           /\ tags = {} => key = <<"time">>

\* tag1 has two distinct values, tag3 and tag4 one each: the computed key
\* has tag3 and tag4 in name order before tag1
C22_Witness ==
    /\ compacted.pc = "returned"
    /\ compacted.sort_key = <<>>
    /\ DOMAIN compacted.data = {"tag1", "tag3", "tag4"}
    /\ compacted.data["tag1"] = 2
    /\ compacted.data["tag3"] = 1
    /\ compacted.data["tag4"] = 1
    /\ compacted.out.data_sort_key = <<"tag3", "tag4", "tag1", "time">>

----------------------------------------------------------------------------
(* Properties of the compacted rows, over SpecPersisting. *)

\* the rows of the collected record batches, in stream order
RECURSIVE Concat(_)
Concat(batches) ==
    IF batches = <<>> THEN <<>> ELSE Head(batches) \o Concat(Tail(batches))

CollectedRows == Concat(collected.batches)

\* the rows of the record batches of the persisting batch, as written
PersistedRows ==
    Concat([i \in 1..Len(persisting.data) |->
              [j \in 1..Len(persisting.data[i].rows) |->
                 [schema |-> persisting.data[i].schema,
                  row |-> persisting.data[i].rows[j]]]])

\* the tag value row r of a batch with this schema has in column c
TagOf(r, c) == IF c \in r.schema THEN r.row.tags[c] ELSE NULL

\* written row r and collected row o agree on every primary key column
SamePrimaryKey(r, o) ==
    /\ r.row.time = o.time
    /\ \A c \in DOMAIN o.tags : TagOf(r, c) = o.tags[c]

\* C23: the collected rows are sorted on the sort key of the compaction;
\* no two of them agree on all tags and time; each written row's primary
\* key is that of exactly one collected row, which is the last written row
\* with that primary key, with its field value; each collected row has
\* every tag column some record batch has, null where its own batch has
\* no such column.
C23_SortedDeduplicated ==
    collected.status = "ok" =>
       LET out == CollectedRows
           written_rows == PersistedRows
           key == compacted.out.data_sort_key
           columns == UNION {persisting.data[i].schema : i \in 1..Len(persisting.data)}
       IN  /\ \A i, j \in 1..Len(out) :
                 i < j => ~SortsBefore(out[j], out[i], key)
           /\ \A i, j \in 1..Len(out) :
                 i # j => (out[i].tags # out[j].tags \/ out[i].time # out[j].time)
           /\ \A i \in 1..Len(out) : DOMAIN out[i].tags = columns
           /\ \A k \in 1..Len(written_rows) :
                 /\ Cardinality({i \in 1..Len(out) :
                                    SamePrimaryKey(written_rows[k], out[i])}) = 1
                 /\ \A i \in 1..Len(out) :
                       SamePrimaryKey(written_rows[k], out[i]) =>
                          out[i].field_int >= written_rows[k].row.field_int
           /\ \A i \in 1..Len(out) :
                 \E k \in 1..Len(written_rows) :
                    /\ written_rows[k].row.field_int = out[i].field_int
                    /\ SamePrimaryKey(written_rows[k], out[i])

\* two record batches hold one row each with tag1 = 1 and time 5: the row
\* of the second batch is the only one collected
C23_Witness ==
    /\ collected.status = "ok"
    /\ Len(persisting.data) = 2
    /\ persisting.data[1].schema = {"tag1"}
    /\ persisting.data[1].rows[1].tags["tag1"] = 1
    /\ persisting.data[1].rows[1].time = 5
    /\ persisting.data[2].schema = {"tag1"}
    /\ persisting.data[2].rows[1].tags["tag1"] = 1
    /\ persisting.data[2].rows[1].time = 5
    /\ Len(CollectedRows) = 1
    /\ CollectedRows[1].field_int = 2

\* C24: every record batch collected from the compaction of a persisting
\* batch that has rows holds a row at least, and there is such a batch; a
\* persisting batch of a single row gives exactly one record batch, which
\* holds exactly that row.
C24_NoEmptyBatches ==
    collected.status = "ok" =>
       /\ \A i \in 1..Len(collected.batches) : Len(collected.batches[i]) >= 1
       /\ Len(collected.batches) >= 1
       /\ Len(PersistedRows) = 1 =>
             /\ Len(collected.batches) = 1
             /\ Len(collected.batches[1]) = 1
             /\ collected.batches[1][1] = PersistedRows[1].row

\* one row without tags, written at time 5, went through the compaction
\* with the empty catalog key and came out as one record batch of one row
C24_Witness ==
    /\ collected.status = "ok"
    /\ persisting.sort_key = << <<>> >>
    /\ Len(persisting.data) = 1
    /\ persisting.data[1].schema = {}
    /\ Len(persisting.data[1].rows) = 1
    /\ persisting.data[1].rows[1].time = 5
    /\ compacted.out.data_sort_key = <<"time">>
    /\ Len(collected.batches) = 1
    /\ collected.batches[1] = <<[tags |-> <<>>, time |-> 5, field_int |-> 1]>>

\* C25: compact_persisting_batch called on a persisting batch whose data
\* holds no record batch returns an error to its caller; it has compacted
\* nothing and has produced no sort key update.
C25_EmptyDataFails ==
    (persisting.data = <<>> /\ compacted.pc # "idle") =>
       /\ compacted.pc # "panicked"
       /\ compacted.out.stream = NoStream
       /\ compacted.out.catalog_sort_key_update = <<>>
       /\ collected = NotCollected

----------------------------------------------------------------------------
(* Properties of the duration literals, over SpecLiteral. *)

\* C26: the displayed form of a non-negative Duration is parsed by the
\* duration parser without an error and to its end, and the Duration
\* parsed is the one displayed; so for 1 ns and for exactly one of a unit.
C26_DisplayRoundTrip ==
    (literal.display # <<>> /\ literal.parsed # <<>>) =>
       /\ literal.parsed[1].ok
       /\ literal.parsed[1].rest = <<>>
       /\ literal.parsed[1].value = literal.duration[1]

\* the position of a unit among the divisors
UnitIndex(unit) == CHOOSE k \in Units : DIVISORS[k] = unit

\* the fragments of the units from the k-th on that d has a count of
RECURSIVE Decomposition(_, _)
Decomposition(d, k) ==
    IF k > Len(DIVISORS) THEN <<>>
    ELSE (IF d[k] > 0 THEN <<Fragment(d[k], DIVISORS[k])>> ELSE <<>>)
            \o Decomposition(d, k + 1)

\* C27: a displayed Duration is its decomposition into w, d, h, m, s, ms,
\* us, ns, the greatest unit first: the units stand in that order, none
\* twice, each with the count the remainder holds of it and none with the
\* count 0; each count after the first is less than what makes one of the
\* next greater unit; exactly one of a unit is displayed as 1 of it; zero
\* is displayed as 0s; the Duration of 20w 6d 13h 11m 10s 9ms 8us 500ns is
\* displayed as these eight fragments and the parsed 5s5s5s5s5s as 25s.
C27_DisplayDecomposition ==
    literal.display # <<>> =>
       LET d == literal.duration[1]
           text == literal.display[1]
       IN  /\ d = Zero => text = <<Fragment(0, "s")>>
           /\ d # Zero => text = Decomposition(d, 1)
           /\ \A i, j \in 1..Len(text) :
                 i < j => UnitIndex(text[i].unit) < UnitIndex(text[j].unit)
           /\ \A i \in 2..Len(text) : text[i].n < PerGreater[UnitIndex(text[i].unit)]
           /\ \A k \in Units :
                 d = [Zero EXCEPT ![k] = 1] => text = <<Fragment(1, DIVISORS[k])>>
           /\ d = TestDuration =>
                 text = <<Fragment(20, "w"), Fragment(6, "d"), Fragment(13, "h"),
                          Fragment(11, "m"), Fragment(10, "s"), Fragment(9, "ms"),
                          Fragment(8, "us"), Fragment(500, "ns")>>
           /\ (literal.source # <<>> /\ Len(literal.source[1]) = 5) =>
                 text = <<Fragment(25, "s")>>

----------------------------------------------------------------------------
(* Properties of the selector aggregates, over SpecSelector. *)

\* the rows of the input table that have a value
ValueRows ==
    {[value |-> selector.table[t].value, time |-> t] :
        t \in {u \in 1..Len(selector.table) :
                  selector.table[u].batch # 0 /\ selector.table[u].value # NULL}}

\* C28: over the rows that have a value, selector_first gives the value
\* and the time of the row with the least time, selector_last of the row
\* with the greatest time, selector_min the least value and selector_max
\* the greatest value, each with the time of the earliest row that has it;
\* the Value and Time outputs of a selector are the two fields of its
\* Struct output.
C28_SelectedRow ==
    (selector.out # <<>> /\ ValueRows # {}) =>
       LET out == selector.out[1]
           Row(kind) == [value |-> out[kind]["Value"], time |-> out[kind]["Time"]]
       IN  /\ \A kind \in SelectorTypes :
                 /\ Row(kind) \in ValueRows
                 /\ out[kind]["Struct"] = Row(kind)
           /\ \A r \in ValueRows :
                 /\ Row("First").time <= r.time
                 /\ Row("Last").time >= r.time
                 /\ Row("Min").value <= r.value
                 /\ Row("Max").value >= r.value
                 /\ r.value = Row("Min").value => Row("Min").time <= r.time
                 /\ r.value = Row("Max").value => Row("Max").time <= r.time

\* the bool_value column of run_plan, record batch 3 fed before record
\* batch 1: false is the least value, and of the rows with false (at 2, 5
\* and 6) the one at 2 is selected; true at 1 is the greatest
C28_Witness ==
    /\ selector.out # <<>>
    /\ selector.table = BoolTable
    /\ selector.fed = <<3, 2, 1>>
    /\ selector.out[1]["Min"]["Struct"] = [value |-> 1, time |-> 2]
    /\ selector.out[1]["Max"]["Struct"] = [value |-> 2, time |-> 1]
    /\ selector.out[1]["First"]["Value"] = 2
    /\ selector.out[1]["Last"]["Time"] = 6

\* update_batch with the record batches 1, 2, 3 in this order, no merge
RECURSIVE UpdatedInOrder(_, _)
UpdatedInOrder(table, batches) ==
    IF batches = <<>> THEN NewAccumulators
    ELSE LET states == UpdatedInOrder(table, SubSeq(batches, 1, Len(batches) - 1))
         IN  [kind \in SelectorTypes |->
                update_batch(kind, states[kind],
                             Arrays(table, batches[Len(batches)])).state]

\* C29: in whatever order the record batches (one of them without rows)
\* were fed, and wherever partial states were merged into the final
\* accumulators, each selector evaluates to the value and the time that
\* updating one accumulator with the record batches in their own order
\* gives.
C29_OrderIndependent ==
    selector.out # <<>> =>
       selector.out[1] = EvaluateAll(UpdatedInOrder(selector.table, <<1, 2, 3>>))

\* the f64_value column of run_plan was fed as record batch 3, the empty
\* record batch 2, then record batch 1, with states merged: the least
\* value 1 is at 4 and the first row has the value 2
C29_Witness ==
    /\ selector.out # <<>>
    /\ selector.table = F64Table
    /\ selector.fed = <<3, 2, 1>>
    /\ selector.merged
    /\ selector.out[1]["Min"]["Struct"] = [value |-> 1, time |-> 4]
    /\ selector.out[1]["First"]["Struct"] = [value |-> 2, time |-> 1]

\* ---- C30 ----

\* route() returned for the request
Returned(r) == req[r].pc = "done"

\* what a request answered with success after its DML call adds to the
\* counters: the lines, fields and tables of b, and the length of b
Counted(r) ==
    LET lines == sent.body.content.lines
    IN  IF result[r] = "Ok" /\ dml_calls[r] = 1
        THEN IF dml_args[r].op = "write"
             THEN [write_lines |-> Len(lines), write_fields |-> Len(lines),
                   write_tables |->
                       Cardinality({lines[i].table : i \in 1..Len(lines)}),
                   write_body_bytes |-> sent.body.len, delete_body_bytes |-> 0]
             ELSE [NoMetrics EXCEPT !.delete_body_bytes = sent.body.len]
        ELSE NoMetrics

\* the same result with the same value carried, and the same DML calls
SameOutcome ==
    /\ result[Plain] = result[Gzipped]
    /\ detail[Plain] = detail[Gzipped]
    /\ dml_calls[Plain] = dml_calls[Gzipped]
    /\ dml_args[Plain] = dml_args[Gzipped]

\* the counters hold what the two requests added, each by the length of b
\* as it is uncompressed
CountedDecompressed ==
    \A f \in DOMAIN metrics : metrics[f] = Counted(Plain)[f] + Counted(Gzipped)[f]

\* b is within the size limit and gzip(b) is not
OnlyGzipTooLarge ==
    /\ sent.body.len <= max_request_bytes
    /\ sent.body.gzip_len > max_request_bytes

\* C30 as stated: for any body b and any query string, the request
\* carrying b uncompressed and the request carrying gzip(b) with
\* Content-Encoding: gzip return the same outcome from route(), make the
\* same DML handler calls and add the same to the metrics, the body byte
\* counters growing by the decompressed length of b for both.
C30_PlainGzipEquivalent ==
    /\ (Returned(Plain) /\ Returned(Gzipped)) => SameOutcome
    /\ CountedDecompressed

\* C30 amended: the same, for every body b except one that is within
\* max_request_bytes while gzip(b) is longer than max_request_bytes.
C30_EquivalentWithinLimit ==
    /\ (Returned(Plain) /\ Returned(Gzipped) /\ ~OnlyGzipTooLarge) => SameOutcome
    /\ CountedDecompressed

\* both requests were answered with success after the same write, gzip(b)
\* being shorter than b, and the body bytes counted are twice b's
C30_Witness ==
    /\ Returned(Plain) /\ Returned(Gzipped)
    /\ result[Plain] = "Ok" /\ result[Gzipped] = "Ok"
    /\ dml_calls[Gzipped] = 1
    /\ dml_args[Gzipped].op = "write"
    /\ dml_args[Plain] = dml_args[Gzipped]
    /\ sent.body.gzip_len < sent.body.len
    /\ metrics.write_body_bytes = 2 * sent.body.len

\* ---- C31 ----

\* the value of the predicate's _measurement equality, "" when it has none
MeasurementOf(predicate) ==
    IF \E i \in 1..Len(predicate) : predicate[i].column = MeasurementColumn
    THEN LET i == CHOOSE j \in 1..Len(predicate) :
                      predicate[j].column = MeasurementColumn
         IN  predicate[i].value
    ELSE ""

\* C31: a delete request that succeeds went through exactly one call of the
\* DML handler's delete, made when its body was read and parsed, with the
\* namespace org "_" bucket of the query string, the table named by the
\* predicate's _measurement equality and the predicate parsed from the
\* body; it returns the default WriteSummary and counts the body in
\* http_delete_body_bytes_total.  When the DML handler answers with an
\* error, route() returns Error::DmlHandler carrying that error and no
\* metric changes.
C31_DeleteHandler ==
    [][ \A r \in Reqs :
          /\ (Arrived(r) /\ req'[r].pc = "reading" /\ req'[r].handler = "delete") =>
                \A q \in AllRequests : Arrive(r, q) =>
                    req'[r].namespace = q.query.org[1] \o "_" \o q.query.bucket[1]
          /\ (req[r].handler = "delete" /\ result'[r] = "Ok") =>
                /\ req[r].pc = "dml"
                /\ dml_calls'[r] = 1
                /\ detail'[r] = WriteSummaryDefault
                /\ metrics' = [metrics EXCEPT !.delete_body_bytes = @ + req[r].body]
          /\ (BodyRead(r) /\ req[r].handler = "delete" /\ req'[r].pc = "dml") =>
                \A gz \in StreamsRead(r), content \in AllContents :
                    EndOfBody(r, gz, content) =>
                       /\ content.kind = "envelope"
                       /\ dml_calls[r] = 0 /\ dml_calls'[r] = 1
                       /\ dml_args'[r].op = "delete"
                       /\ dml_args'[r].namespace = req[r].namespace
                       /\ Len(dml_args'[r].input) = 1
                       /\ dml_args'[r].input[1].table =
                             MeasurementOf(content.predicate)
                       /\ \A e \in {content.predicate[i] :
                                        i \in 1..Len(content.predicate)} :
                             e.column # MeasurementColumn =>
                                \E i \in 1..Len(dml_args'[r].input[1].predicate) :
                                    dml_args'[r].input[1].predicate[i] = e
          /\ (req[r].pc = "dml" /\ req[r].handler = "delete") =>
                \A outcome \in AllDmlOutcomes :
                    (~outcome.ok /\ DmlReturn(r, outcome)) =>
                       /\ result'[r] = "DmlHandler"
                       /\ detail'[r] = outcome.value
                       /\ metrics' = metrics
                       /\ dml_calls'[r] = 1
      ]_vars

\* the delete of "_measurement=its_a_table and location=Boston" in
\* ?org=bananas&bucket=test succeeded
C31_Witness ==
    /\ result[1] = "Ok"
    /\ detail[1] = WriteSummaryDefault
    /\ dml_calls[1] = 1
    /\ dml_args[1] = [op |-> "delete", namespace |-> "bananas_test",
                      input |-> <<[table |-> "its_a_table",
                                   predicate |-> <<DeleteExpr("location", "Boston")>>]>>]
    /\ metrics.delete_body_bytes > 0

\* ---- reads of the buffer ----

\* get_query_data can be called on every live buffer and changes nothing of
\* it; after a read in Buffering the buffer still takes writes.  Whether
\* two reads in a row of a Buffering buffer return the same references is
\* decided by Buffering's own get_query_data (buffering.rs), to which
\* state_machine.rs only delegates, and no formula here states it; of
\* Snapshot and Persisting it is stated by C9.
ReadsLeaveBuffer ==
    /\ [](life = "live" => Queryable(tag))
    /\ []((life = "live" /\ tag = "Buffering" /\ bev.op = "get_query_data") =>
            write_callable(buffer))
    /\ [][ bev'.op = "get_query_data" =>
             /\ buffer' = buffer
             /\ life' = life
             /\ written' = written
             /\ \A batch \in Batches, n \in 0..MaxSeq :
                   tag = "Buffering" => write(buffer', batch, n) = write(buffer, batch, n)
         ]_vars


\* the lines of the body the client sent
SentLines == sent.body.content.lines

\* route() looked at the request's body: it passed it on or returned
Looked(r) == req[r].pc = "dml" \/ result[r] \notin {"none", "RequestLimit"}

\* a line that writes a tag key twice
RepeatsTag(l) ==
    \E i, j \in 1..Len(l.tags) : i < j /\ l.tags[i].key = l.tags[j].key

\* a line with a tag and a field of one key
TagAndField(l) ==
    \E i \in 1..Len(l.tags), j \in 1..Len(l.fields) :
        l.tags[i].key = l.fields[j].key

\* a line with a field named time
TimeField(l) == \E i \in 1..Len(l.fields) : l.fields[i].key = TimeColumn

\* a line that writes a field key twice / with two types
RepeatsField(l) ==
    \E i, j \in 1..Len(l.fields) : i < j /\ l.fields[i].key = l.fields[j].key
ConflictingFields(l) ==
    \E i, j \in 1..Len(l.fields) :
        /\ l.fields[i].key = l.fields[j].key
        /\ l.fields[i].type # l.fields[j].type

\* the last field of the line with this key
LastField(l, key) ==
    LET i == SetMax({n \in 1..Len(l.fields) : l.fields[n].key = key})
    IN  [type |-> l.fields[i].type, value |-> l.fields[i].value]

\* C33: a body of one line whose only repetition is of field keys: when
\* the values written for each key have one type, the DML handler is given
\* one row in which each field holds the last value written for its key;
\* when a key is written with two types, route() returns
\* ParseLineProtocol carrying ConflictedFieldTypes and the DML handler is
\* never called.
C33_DuplicateFields ==
    \A r \in Encoded :
        (/\ Len(SentLines) = 1
         /\ ~RepeatsTag(SentLines[1])
         /\ ~TagAndField(SentLines[1])
         /\ ~TimeField(SentLines[1])
         /\ Looked(r)) =>
            IF ConflictingFields(SentLines[1])
            THEN /\ result[r] = "ParseLineProtocol"
                 /\ detail[r] = "ConflictedFieldTypes"
                 /\ response(result[r], detail[r]).status = 400
                 /\ dml_calls[r] = 0
            ELSE /\ dml_calls[r] = 1
                 /\ dml_args[r].op = "write"
                 /\ Len(dml_args[r].input) = 1
                 /\ DOMAIN dml_args[r].input[1].fields =
                       {SentLines[1].fields[i].key :
                            i \in 1..Len(SentLines[1].fields)}
                 /\ \A k \in DOMAIN dml_args[r].input[1].fields :
                       dml_args[r].input[1].fields[k] =
                           LastField(SentLines[1], k)

\* whydo InputPower=300i,InputPower=42i was written and stored 42
C33_Witness ==
    /\ SentLines = <<Line("whydo", <<>>,
                          <<Field("InputPower", "i", 300),
                            Field("InputPower", "i", 42)>>, <<>>)>>
    /\ result[Plain] = "Ok"
    /\ dml_calls[Plain] = 1
    /\ Len(dml_args[Plain].input) = 1
    /\ dml_args[Plain].input[1].fields["InputPower"] =
          [type |-> "i", value |-> 42]

\* C34: a body of one line that writes a tag key twice, that has a tag and
\* a field of one key, or that has a field named time, is answered with
\* ParseLineProtocol (status 400) and the DML handler is never called; a
\* line whose only fault is the repeated tag key carries DuplicateTag, and
\* one whose only fault is the key shared by a tag and a field carries
\* TypeMismatch, whatever the tag values and the field types are.
C34_RejectedLines ==
    \A r \in Encoded :
        (/\ Len(SentLines) = 1
         /\ \/ RepeatsTag(SentLines[1])
            \/ TagAndField(SentLines[1])
            \/ TimeField(SentLines[1])) =>
            /\ dml_calls[r] = 0
            /\ req[r].pc # "dml"
            /\ Looked(r) =>
                 /\ result[r] = "ParseLineProtocol"
                 /\ response(result[r], detail[r]).status = 400
                 /\ (/\ RepeatsTag(SentLines[1])
                     /\ ~TagAndField(SentLines[1])
                     /\ ~TimeField(SentLines[1])
                     /\ ~ConflictingFields(SentLines[1])) =>
                        detail[r] = "DuplicateTag"
                 /\ (/\ TagAndField(SentLines[1])
                     /\ ~RepeatsTag(SentLines[1])
                     /\ ~TimeField(SentLines[1])
                     /\ ~ConflictingFields(SentLines[1])) =>
                        detail[r] = "TypeMismatch"

\* whydo,InputPower=300i,InputPower=42i field=42i was rejected for its
\* repeated tag
C34_Witness ==
    /\ SentLines = <<Line("whydo",
                          <<Tag("InputPower", "300i"), Tag("InputPower", "42i")>>,
                          <<Field("field", "i", 42)>>, <<>>)>>
    /\ result[Plain] = "ParseLineProtocol"
    /\ detail[Plain] = "DuplicateTag"
    /\ result[Gzipped] = "ParseLineProtocol"
    /\ dml_calls = [r \in Reqs |-> 0]

\* C35: the lines of a body for one table, tag set and timestamp are
\* passed to the DML handler as one row each, in the order of the body.
C35_NoUpsert ==
    \A r \in Encoded :
        ((\A i \in 1..Len(SentLines) : SentLines[i] \in UpsertLines)
            /\ Looked(r)) =>
            /\ dml_calls[r] = 1
            /\ dml_args[r].op = "write"
            /\ Len(dml_args[r].input) = Len(SentLines)
            /\ \A i \in 1..Len(SentLines) :
                  /\ dml_args[r].input[i].table = SentLines[i].table
                  /\ dml_args[r].input[i].tags = <<>>
                  /\ dml_args[r].input[i].fields["field"] =
                        [type |-> "u", value |-> SentLines[i].fields[1].value]

\* test field=1u 100 and test field=2u 100 gave the rows 1 and 2
C35_Witness ==
    /\ Len(SentLines) = 2
    /\ SentLines[1] \in UpsertLines /\ SentLines[2] \in UpsertLines
    /\ SentLines[1].fields[1].value = 1 /\ SentLines[2].fields[1].value = 2
    /\ result[Plain] = "Ok"
    /\ Len(dml_args[Plain].input) = 2
    /\ dml_args[Plain].input[1].time = dml_args[Plain].input[2].time
    /\ dml_args[Plain].input[1].fields["field"].value = 1
    /\ dml_args[Plain].input[2].fields["field"].value = 2


\* a query string write_handler refuses: no org or bucket, an empty one, a
\* precision that names none, or a namespace name that is too long
BadOrgBucket(query) ==
    \/ ~query.present
    \/ query.org = <<>> \/ query.bucket = <<>>
    \/ query.org[1] = "" \/ query.bucket[1] = ""
    \/ (query.precision # <<>> /\ query.precision[1] \notin Precisions)
    \/ Len(query.org[1]) + 1 + Len(query.bucket[1]) > MaxDatabaseNameLen

\* what the checks made before the body is polled return
HeaderCheck(q) ==
    IF BadOrgBucket(q.query) THEN "InvalidOrgBucket"
    ELSE IF q.encoding = "non_utf8" THEN "NonUtf8ContentHeader"
    ELSE IF q.encoding \notin {"missing", "gzip"} THEN "InvalidContentEncoding"
    ELSE "none"

\* what the gzip decoding of a body read whole returns
GzipCheck(ungzip, gz) ==
    IF ~ungzip THEN "none"
    ELSE IF gz.len > max_request_bytes THEN "RequestSizeExceeded"
    ELSE IF gz.corrupt THEN "InvalidGzip"
    ELSE "none"

\* C36: the write handler reports the first failure only, and checks in
\* this order: the query string and the namespace name (InvalidOrgBucket),
\* the Content-Encoding header (NonUtf8ContentHeader,
\* InvalidContentEncoding), the body stream chunk by chunk (ClientHangup,
\* RequestSizeExceeded), the gzip decoding (InvalidGzip,
\* RequestSizeExceeded), the UTF-8 decoding (NonUtf8Body), the line
\* protocol (ParseLineProtocol), the DML call (DmlHandler).  A request with
\* a refused query string returns InvalidOrgBucket in the step of the
\* call, with no byte of its body read, whatever its Content-Encoding is.
C36_CheckOrder ==
    [][ \A r \in Reqs :
          /\ result[r] # "none" => result'[r] = result[r]
          /\ (Arrived(r) /\ permits > 0) =>
                \A q \in AllRequests :
                    (/\ q.method = "POST" /\ q.path = "/api/v2/write"
                     /\ Arrive(r, q)) =>
                        /\ result'[r] = HeaderCheck(q)
                        /\ req'[r].body = 0
                        /\ dml_calls'[r] = 0
                        /\ IF HeaderCheck(q) = "none"
                           THEN req'[r].pc = "reading"
                           ELSE req'[r] = Gone
          /\ (req[r].pc = "reading" /\ req[r].handler = "write"
                /\ req'[r].pc = "reading") =>
                /\ result'[r] = "none"
                /\ dml_calls'[r] = 0
          /\ (req[r].pc = "reading" /\ req[r].handler = "write"
                /\ req'[r].pc # "reading") =>
                /\ \A chunk \in 0..MaxChunk :
                      ReadChunk(r, chunk) =>
                         /\ req[r].body + chunk > max_request_bytes
                         /\ result'[r] = "RequestSizeExceeded"
                         /\ dml_calls'[r] = 0
                /\ ReadError(r) => result'[r] = "ClientHangup" /\ dml_calls'[r] = 0
                /\ \A gz \in GzStreams, content \in AllContents :
                      EndOfBody(r, gz, content) =>
                         IF GzipCheck(req[r].ungzip, gz) # "none"
                         THEN /\ result'[r] = GzipCheck(req[r].ungzip, gz)
                              /\ dml_calls'[r] = 0
                         ELSE IF content.kind = "not_utf8"
                         THEN result'[r] = "NonUtf8Body" /\ dml_calls'[r] = 0
                         ELSE IF content.kind \in {"malformed", "envelope"}
                         THEN result'[r] = "ParseLineProtocol" /\ dml_calls'[r] = 0
                         ELSE IF content.kind = "blank"
                         THEN result'[r] = "Ok" /\ dml_calls'[r] = 0
                         ELSE \/ result'[r] = "ParseLineProtocol" /\ dml_calls'[r] = 0
                              \/ /\ result'[r] = "none"
                                 /\ req'[r].pc = "dml"
                                 /\ dml_calls'[r] = 1
          /\ (result[r] = "none" /\ result'[r] = "DmlHandler") =>
                req[r].pc = "dml" /\ dml_calls[r] = 1
    ]_vars

\* a write without org and bucket was refused before its body was read
C36_Witness ==
    /\ result[1] = "InvalidOrgBucket"
    /\ detail[1] = "NotSpecified"
    /\ req[1] = Gone
    /\ dml_calls[1] = 0
    /\ metrics = NoMetrics
    /\ permits = max_requests
    /\ max_requests > 0


\* a method and path route() has no handler for
Unrouted(q) ==
    ~(q.method = "POST" /\ q.path \in {"/api/v2/write", "/api/v2/delete"})

\* C37: route() takes a permit before it looks at the method and the path:
\* a call made while max_requests requests hold permits returns
\* RequestLimit (status 503) and is counted as rejected, also when its path
\* or method has no handler; a call with no handler that is admitted
\* returns NoHandler (status 404) and has given its permit back when it
\* returns, without being counted; and a delegate with max_requests = 0
\* admits no request at all.
C37_AdmissionBeforeRouting ==
    /\ [](max_requests = 0 =>
            \A r \in Reqs : /\ result[r] \in {"none", "RequestLimit"}
                            /\ req[r].pc \in {"idle", "done"}
                            /\ ~req[r].permit)
    /\ [][ \A r \in Reqs : Arrived(r) =>
             \A q \in Requests : Arrive(r, q) =>
                IF Cardinality(Holding) >= max_requests
                THEN /\ result'[r] = "RequestLimit"
                     /\ response(result'[r], detail'[r]).status = 503
                     /\ rejected' = rejected + 1
                     /\ permits' = permits
                     /\ req'[r] = Gone
                ELSE /\ result'[r] # "RequestLimit"
                     /\ rejected' = rejected
                     /\ Unrouted(q) =>
                          /\ result'[r] = "NoHandler"
                          /\ response(result'[r], detail'[r]).status = 404
                          /\ permits' = permits
                          /\ req'[r] = Gone
                     /\ ~Unrouted(q) => result'[r] # "NoHandler"
         ]_vars

\* with one permit, held by a request that waits for the DML handler, the
\* next request was rejected whatever it asked for
C37_Witness ==
    /\ max_requests = 1
    /\ permits = 0
    /\ req[1].pc = "dml" /\ req[1].permit
    /\ dml_calls[1] = 1
    /\ result[2] = "RequestLimit"
    /\ req[2] = Gone
    /\ rejected = 1


\* C38: a write() whose batch cannot be appended to the buffered one (a
\* column of the batch has another type than the buffer's) returns the
\* error, and a write() that returns an error leaves the sequence range as
\* it was: the sequence number of the call is not observed, and the buffer
\* is still Buffering and still takes writes.
C38_FailedWriteKeepsRange ==
    [][ \A batch \in Batches, n \in 0..MaxSeq :
          Write(batch, n) =>
             /\ (buffer.state.mb.ty \notin {"none", batch.ty}) => bev'.ret = "Err"
             /\ bev'.ret = "Err" =>
                   /\ buffer.state.mb.ty \notin {"none", batch.ty}
                   /\ range' = range
                   /\ inclusive_min(range') = inclusive_min(range)
                   /\ inclusive_max(range') = inclusive_max(range)
                   /\ written' = written
                   /\ buffer'.state.tag = "Buffering"
                   /\ life' = "live"
                   /\ write_callable(buffer')
      ]_vars

\* a write with a sequence number above the range failed, and the range
\* does not reach it
C38_Witness ==
    /\ bev.op = "write"
    /\ bev.ret = "Err"
    /\ range.some
    /\ bev.n > inclusive_max(range)
    /\ bev.n \notin written
    /\ buffer.state.tag = "Buffering"
    /\ life = "live"


\* the rows the buffer holds: those of the mutable batch while Buffering,
\* those of the frozen batches afterwards
RECURSIVE FrozenRows(_)
FrozenRows(batches) ==
    IF Len(batches) = 0 THEN 0
    ELSE Len(batches[1].rows) + FrozenRows(Tail(batches))
HeldRows == Len(buffer.state.mb.rows) + FrozenRows(buffer.state.batches)

\* C39: a buffer in Snapshot or Persisting holds at least one row and has
\* a populated sequence range with min <= max; a Buffering buffer that
\* holds no row, whether or not its range is populated (by writes of
\* batches without rows), stays in Buffering at every call, and its
\* snapshot() returns Unchanged with the buffer as it was.
C39_FrozenBufferHasRows ==
    /\ [](buffer.state.tag \in {"Snapshot", "Persisting"} =>
            /\ HeldRows >= 1
            /\ range.some
            /\ range.min <= range.max
            /\ written # {})
    /\ [][ (buffer.state.tag = "Buffering" /\ HeldRows = 0) =>
             /\ buffer'.state.tag = "Buffering"
             /\ SnapshotCall => (bev'.ret = "Unchanged" /\ buffer' = buffer)
         ]_vars

\* snapshot() of a buffer that only took a batch without rows: the range
\* is populated, the buffer is still Buffering
C39_Witness ==
    /\ bev.op = "snapshot"
    /\ bev.ret = "Unchanged"
    /\ buffer.state.tag = "Buffering"
    /\ HeldRows = 0
    /\ range.some
    /\ range.min <= range.max
    /\ written # {}

=============================================================================
